---- MODULE Spec2Model ----
(***************************************************************************)
(* barebox-bringup: bootstrap/power strategies (strategy-bootstrap.py,     *)
(* strategy-sdmux.py), place acquisition, the console I/O loops and the    *)
(* resource teardown (cli.py).                                             *)
(***************************************************************************)
EXTENDS Integers, Sequences, FiniteSets, TLC

(***************************************************************************)
(* Bounds                                                                  *)
(***************************************************************************)
\* number of transition/force calls made on one strategy object
MaxCalls == 3

(***************************************************************************)
(* Strategy state machine                                                  *)
(***************************************************************************)
VARIABLES
    variant,         \* strategy class bound to the target: "bootstrap", "sdmux", "none"
    neverRetry,      \* TRUE: labgrid provides never_retry; FALSE: the no-op fallback
    no_write,        \* config option 'no_write' (--no-write)
    status,          \* Strategy.status
    bootstrap_done,  \* Strategy.bootstrap_done
    broken,          \* Strategy.broken, set by labgrid's never_retry wrapper
    hw,              \* driver/hardware state seen through the bound capabilities
    lastCall,        \* the last transition/force call: arguments, issued operations, result
    calls            \* number of strategy calls made so far

stratVars == <<variant, neverRetry, no_write, status, bootstrap_done, broken,
               hw, lastCall, calls>>

(***************************************************************************)
(* Coordinator place, sessions, and the frame of main()                    *)
(***************************************************************************)
VARIABLES
    placeHolder,     \* place.acquired at the coordinator: NoHolder or host/user
    ident,           \* per session: gethostname() / getuser()
    acqResult,       \* per session: how its acquire_place call ended
    seen,            \* per session: place.acquired as its acquire_place call found it
    place_acquired,  \* per session: main's place_acquired flag
    acquireReqs,     \* per session: AcquirePlace requests sent
    releaseReqs,     \* per session: ReleasePlace requests sent
    pcP              \* per session: position in the place lifecycle

placeVars == <<placeHolder, ident, acqResult, seen, place_acquired, acquireReqs,
               releaseReqs, pcP>>

VARIABLES
    pc,              \* position of main(): setup .. teardown .. done
    main,            \* main()'s locals that cleanup_resources receives
    sessionState,    \* the coordinator session: "none", "started", "stopped", "closed"
    powered_off,     \* cleanup_resources' powered_off
    tdStep,          \* index of the next teardown step
    tdLog,           \* teardown steps attempted so far, in order
    tdRaised,        \* teardown steps that raised
    mainResult,      \* value returned by main()'s try/except: 0, 1, 130 (-1: none yet)
    exitCode         \* exit code of the process (-1: still running)

mainVars == <<pc, main, sessionState, powered_off, tdStep, tdLog, tdRaised,
              mainResult, exitCode>>

(***************************************************************************)
(* Console I/O loop (cli.py: interactive_console, non_interactive_console) *)
(***************************************************************************)
VARIABLES
    cfg,             \* how the console function is called: mode, input source, timeout, ...
    con,             \* the console function's locals, the terminal, and what it wrote
    alive,           \* the target behind the console still runs / is connected
    now,             \* time.time() - start_time, in clock ticks
    lastStep         \* the last half iteration: what the input offered, what was done

consoleVars == <<cfg, con, alive, now, lastStep>>

(***************************************************************************)
(* Image selection (cli.py: load_environment, normalize_image_config)      *)
(***************************************************************************)
VARIABLES
    envIn,           \* load_environment's arguments and the images of the config file
    envOut           \* how load_environment ended and the images it left in the config

imageVars == <<envIn, envOut>>

BootstrapStatus == {"unknown", "off", "on", "barebox"}

SDMuxStatus == {"unknown", "off", "on", "barebox"}

Variants == {"bootstrap", "sdmux"}

\* operations on the power capability
PowerOps == {"power_off", "power_cycle"}

\* operations that touch a driver or the hardware behind it
HardwareOps ==
    {"activate_console", "deactivate_console", "activate_power", "power_off",
     "power_cycle", "activate_usbloader", "usbloader_load", "activate_barebox",
     "activate_sdmux", "sdmux_set_mode_dut", "sdmux_set_mode_host",
     "activate_storage", "storage_write_image"}

\* every operation that can raise: the hardware operations and the image lookup
FallibleOps == HardwareOps \cup {"get_image"}

\* bookkeeping steps of a call (they cannot raise, "raise_StrategyError" always does)
PseudoOps ==
    {"step_skip", "raise_StrategyError", "set_status_off", "set_status_on",
     "set_status_barebox", "set_bootstrap_done"}

HwInit ==
    [active |-> {}, lastPower |-> "none", lastPowerOk |-> TRUE,
     muxMode |-> "unknown", writes |-> 0, loads |-> 0]

NoCall ==
    [kind |-> "none", target |-> "unknown", from |-> "unknown", fromDone |-> FALSE,
     fromBroken |-> FALSE, fromHw |-> HwInit, ops |-> <<>>, failed |-> "none",
     result |-> "none"]

RECURSIVE BootstrapTransitionOps_NoSkip(_, _)
\* BootstrapStrategy.transition without the "nothing to do" branch
BootstrapTransitionOps_NoSkip(cur, t) ==
    IF t = "unknown" THEN <<"raise_StrategyError">>
    ELSE IF t = "off" THEN
        <<"deactivate_console", "activate_power", "power_off", "set_status_off">>
    ELSE IF t = "on" THEN
        BootstrapTransitionOps_NoSkip(cur, "off")
        \o <<"activate_console", "power_cycle", "get_image",
             "activate_usbloader", "usbloader_load", "set_status_on">>
    ELSE IF t = "barebox" THEN
        BootstrapTransitionOps_NoSkip(cur, "on")
        \o <<"activate_barebox", "set_status_barebox">>
    ELSE <<"raise_StrategyError">>

RECURSIVE BootstrapTransitionOps_BareboxFromOff(_, _)
\* BootstrapStrategy.transition whose 'barebox' branch recurses to 'off' instead of 'on'
BootstrapTransitionOps_BareboxFromOff(cur, t) ==
    IF t = "unknown" THEN <<"raise_StrategyError">>
    ELSE IF t = cur THEN <<"step_skip">>
    ELSE IF t = "off" THEN
        <<"deactivate_console", "activate_power", "power_off", "set_status_off">>
    ELSE IF t = "on" THEN
        BootstrapTransitionOps_BareboxFromOff(cur, "off")
        \o <<"activate_console", "power_cycle", "get_image",
             "activate_usbloader", "usbloader_load", "set_status_on">>
    ELSE IF t = "barebox" THEN
        BootstrapTransitionOps_BareboxFromOff(cur, "off")
        \o <<"activate_barebox", "set_status_barebox">>
    ELSE <<"raise_StrategyError">>

RECURSIVE BootstrapTransitionOps(_, _)
\* BootstrapStrategy.transition: the operations one call goes through, in order.
\* Line 110 of the source reads "elif status == BootstrapStatus.barebox or";
\* it is taken as the test for the barebox branch.  "barebox" is in neither
\* class's bindings, so "activate_barebox" (target.activate(self.barebox)) is an
\* operation like the others here: it is issued last and may raise.
BootstrapTransitionOps(cur, t) ==
    IF t = "unknown" THEN <<"raise_StrategyError">>
    ELSE IF t = cur THEN <<"step_skip">>
    ELSE IF t = "off" THEN
        <<"deactivate_console", "activate_power", "power_off", "set_status_off">>
    ELSE IF t = "on" THEN
        BootstrapTransitionOps(cur, "off")
        \o <<"activate_console", "power_cycle", "get_image",
             "activate_usbloader", "usbloader_load", "set_status_on">>
    ELSE IF t = "barebox" THEN
        BootstrapTransitionOps(cur, "on")
        \o <<"activate_barebox", "set_status_barebox">>
    ELSE <<"raise_StrategyError">>

\* the image write block deciding on bootstrap_done alone, the override ignored
SDMuxWriteOps_IgnoreNoWrite(done, nw) ==
    IF ~done THEN
        <<"get_image", "activate_sdmux", "activate_storage", "sdmux_set_mode_host",
          "storage_write_image", "sdmux_set_mode_dut", "set_bootstrap_done">>
    ELSE
        <<"activate_sdmux", "sdmux_set_mode_dut">>

\* SDMuxStrategy.transition, the image write block of the 'on' branch
SDMuxWriteOps(done, nw) ==
    IF ~done /\ ~nw THEN
        <<"get_image", "activate_sdmux", "activate_storage", "sdmux_set_mode_host",
          "storage_write_image", "sdmux_set_mode_dut", "set_bootstrap_done">>
    ELSE
        <<"activate_sdmux", "sdmux_set_mode_dut">>
        \o (IF nw /\ ~done THEN <<"set_bootstrap_done">> ELSE <<>>)

RECURSIVE SDMuxTransitionOps_SkipFirst(_, _, _, _)
\* SDMuxStrategy.transition testing "status == self.status" before "unknown"
SDMuxTransitionOps_SkipFirst(cur, done, nw, t) ==
    IF t = cur THEN <<"step_skip">>
    ELSE IF t = "unknown" THEN <<"raise_StrategyError">>
    ELSE IF t = "off" THEN
        <<"activate_sdmux", "sdmux_set_mode_dut", "deactivate_console",
          "activate_power", "power_off", "set_status_off">>
    ELSE IF t = "on" THEN
        (IF cur # "off" THEN SDMuxTransitionOps_SkipFirst(cur, done, nw, "off")
         ELSE <<>>)
        \o <<"activate_console">>
        \o SDMuxWriteOps(done, nw)
        \o <<"power_cycle", "set_status_on">>
    ELSE IF t = "barebox" THEN
        SDMuxTransitionOps_SkipFirst(cur, done, nw, "on")
        \o <<"activate_barebox", "set_status_barebox">>
    ELSE <<"raise_StrategyError">>

RECURSIVE SDMuxTransitionOps_NoPowerOff(_, _, _, _)
\* SDMuxStrategy.transition whose 'on' branch does not go through 'off' first
SDMuxTransitionOps_NoPowerOff(cur, done, nw, t) ==
    IF t = "unknown" THEN <<"raise_StrategyError">>
    ELSE IF t = cur THEN <<"step_skip">>
    ELSE IF t = "off" THEN
        <<"activate_sdmux", "sdmux_set_mode_dut", "deactivate_console",
          "activate_power", "power_off", "set_status_off">>
    ELSE IF t = "on" THEN
        <<"activate_console">>
        \o SDMuxWriteOps(done, nw)
        \o <<"power_cycle", "set_status_on">>
    ELSE IF t = "barebox" THEN
        SDMuxTransitionOps_NoPowerOff(cur, done, nw, "on")
        \o <<"activate_barebox", "set_status_barebox">>
    ELSE <<"raise_StrategyError">>

RECURSIVE SDMuxTransitionOps_StatusFirst(_, _, _, _)
\* SDMuxStrategy.transition assigning the 'on' state before the power cycle
SDMuxTransitionOps_StatusFirst(cur, done, nw, t) ==
    IF t = "unknown" THEN <<"raise_StrategyError">>
    ELSE IF t = cur THEN <<"step_skip">>
    ELSE IF t = "off" THEN
        <<"activate_sdmux", "sdmux_set_mode_dut", "deactivate_console",
          "activate_power", "power_off", "set_status_off">>
    ELSE IF t = "on" THEN
        (IF cur # "off" THEN SDMuxTransitionOps_StatusFirst(cur, done, nw, "off")
         ELSE <<>>)
        \o <<"activate_console">>
        \o SDMuxWriteOps(done, nw)
        \o <<"set_status_on", "power_cycle">>
    ELSE IF t = "barebox" THEN
        SDMuxTransitionOps_StatusFirst(cur, done, nw, "on")
        \o <<"activate_barebox", "set_status_barebox">>
    ELSE <<"raise_StrategyError">>

RECURSIVE SDMuxTransitionOps(_, _, _, _)
\* SDMuxStrategy.transition: the operations one call goes through, in order
SDMuxTransitionOps(cur, done, nw, t) ==
    IF t = "unknown" THEN <<"raise_StrategyError">>
    ELSE IF t = cur THEN <<"step_skip">>
    ELSE IF t = "off" THEN
        <<"activate_sdmux", "sdmux_set_mode_dut", "deactivate_console",
          "activate_power", "power_off", "set_status_off">>
    ELSE IF t = "on" THEN
        (IF cur # "off" THEN SDMuxTransitionOps(cur, done, nw, "off") ELSE <<>>)
        \o <<"activate_console">>
        \o SDMuxWriteOps(done, nw)
        \o <<"power_cycle", "set_status_on">>
    ELSE IF t = "barebox" THEN
        SDMuxTransitionOps(cur, done, nw, "on")
        \o <<"activate_barebox", "set_status_barebox">>
    ELSE <<"raise_StrategyError">>

\* BootstrapStrategy.force that also accepts 'off' and powers the target off
BootstrapForceOps_AcceptsOff(t) ==
    IF t = "barebox" THEN <<"activate_console", "set_status_barebox">>
    ELSE IF t = "off" THEN <<"activate_power", "power_off", "set_status_off">>
    ELSE <<"raise_StrategyError">>

\* BootstrapStrategy.force
BootstrapForceOps(t) ==
    IF t = "barebox" THEN <<"activate_console", "set_status_barebox">>
    ELSE <<"raise_StrategyError">>

\* SDMuxStrategy.force
SDMuxForceOps(t) ==
    IF t = "barebox"
    THEN <<"activate_console", "set_bootstrap_done", "set_status_barebox">>
    ELSE <<"raise_StrategyError">>

\* the body of a call, by strategy class and method
BodyOps(v, kind, cur, done, nw, t) ==
    IF kind = "transition"
    THEN IF v = "bootstrap" THEN BootstrapTransitionOps(cur, t)
         ELSE SDMuxTransitionOps(cur, done, nw, t)
    ELSE IF v = "bootstrap" THEN BootstrapForceOps(t)
         ELSE SDMuxForceOps(t)

\* never_retry: labgrid's wrapper refuses every call on a broken strategy,
\* the fallback decorator returns the function unchanged
NeverRetryOps(nr, brk, body) ==
    IF nr /\ brk THEN <<"raise_StrategyError">> ELSE body

\* the effect of an operation when powering off starts a new bootstrap
ApplyOp_OffClearsDone(op, s) ==
    CASE op = "activate_console"    -> [s EXCEPT !.active = @ \cup {"console"}]
      [] op = "deactivate_console"  -> [s EXCEPT !.active = @ \ {"console"}]
      [] op = "activate_power"      -> [s EXCEPT !.active = @ \cup {"power"}]
      [] op = "activate_usbloader"  -> [s EXCEPT !.active = @ \cup {"usbloader"}]
      [] op = "activate_barebox"    -> [s EXCEPT !.active = @ \cup {"barebox"}]
      [] op = "activate_sdmux"      -> [s EXCEPT !.active = @ \cup {"sdmux"}]
      [] op = "activate_storage"    -> [s EXCEPT !.active = @ \cup {"storage"}]
      [] op = "power_off"           -> [s EXCEPT !.lastPower = "off",
                                                 !.lastPowerOk = TRUE]
      [] op = "power_cycle"         -> [s EXCEPT !.lastPower = "cycle",
                                                 !.lastPowerOk = TRUE]
      [] op = "sdmux_set_mode_dut"  -> [s EXCEPT !.muxMode = "dut"]
      [] op = "sdmux_set_mode_host" -> [s EXCEPT !.muxMode = "host"]
      [] op = "storage_write_image" -> [s EXCEPT !.writes = @ + 1]
      [] op = "usbloader_load"      -> [s EXCEPT !.loads = @ + 1]
      [] op = "set_status_off"      -> [s EXCEPT !.status = "off",
                                                 !.bootstrap_done = FALSE]
      [] op = "set_status_on"       -> [s EXCEPT !.status = "on"]
      [] op = "set_status_barebox"  -> [s EXCEPT !.status = "barebox"]
      [] op = "set_bootstrap_done"  -> [s EXCEPT !.bootstrap_done = TRUE]
      [] OTHER                      -> s

\* the effect of one operation that completed
ApplyOp(op, s) ==
    CASE op = "activate_console"    -> [s EXCEPT !.active = @ \cup {"console"}]
      [] op = "deactivate_console"  -> [s EXCEPT !.active = @ \ {"console"}]
      [] op = "activate_power"      -> [s EXCEPT !.active = @ \cup {"power"}]
      [] op = "activate_usbloader"  -> [s EXCEPT !.active = @ \cup {"usbloader"}]
      [] op = "activate_barebox"    -> [s EXCEPT !.active = @ \cup {"barebox"}]
      [] op = "activate_sdmux"      -> [s EXCEPT !.active = @ \cup {"sdmux"}]
      [] op = "activate_storage"    -> [s EXCEPT !.active = @ \cup {"storage"}]
      [] op = "power_off"           -> [s EXCEPT !.lastPower = "off",
                                                 !.lastPowerOk = TRUE]
      [] op = "power_cycle"         -> [s EXCEPT !.lastPower = "cycle",
                                                 !.lastPowerOk = TRUE]
      [] op = "sdmux_set_mode_dut"  -> [s EXCEPT !.muxMode = "dut"]
      [] op = "sdmux_set_mode_host" -> [s EXCEPT !.muxMode = "host"]
      [] op = "storage_write_image" -> [s EXCEPT !.writes = @ + 1]
      [] op = "usbloader_load"      -> [s EXCEPT !.loads = @ + 1]
      [] op = "set_status_off"      -> [s EXCEPT !.status = "off"]
      [] op = "set_status_on"       -> [s EXCEPT !.status = "on"]
      [] op = "set_status_barebox"  -> [s EXCEPT !.status = "barebox"]
      [] op = "set_bootstrap_done"  -> [s EXCEPT !.bootstrap_done = TRUE]
      [] OTHER                      -> s

\* the effect of a raising operation on a strategy that forgets its state
\* when a call fails
ApplyFailedOp_ForgetsState(op, s) ==
    CASE op = "power_off"   -> [s EXCEPT !.lastPower = "off", !.lastPowerOk = FALSE,
                                         !.status = "unknown"]
      [] op = "power_cycle" -> [s EXCEPT !.lastPower = "cycle", !.lastPowerOk = FALSE,
                                         !.status = "unknown"]
      [] OTHER              -> [s EXCEPT !.status = "unknown"]

\* the effect of an operation that was issued and raised: a power command has
\* been sent to the target, nothing else is known to have changed
ApplyFailedOp(op, s) ==
    CASE op = "power_off"   -> [s EXCEPT !.lastPower = "off", !.lastPowerOk = FALSE]
      [] op = "power_cycle" -> [s EXCEPT !.lastPower = "cycle", !.lastPowerOk = FALSE]
      [] OTHER              -> s

\* record an issued operation in the call's log
LogOp(op, s) ==
    IF op \in FallibleOps THEN [s EXCEPT !.ops = Append(@, op)] ELSE s

RECURSIVE RunOps(_, _, _, _, _)
\* run ops[i..]; the operation at index f raises exc (f = 0: nothing fails)
RunOps(ops, i, f, exc, s) ==
    IF i > Len(ops) THEN
        [s EXCEPT !.result = IF ops = <<"step_skip">> THEN "skip" ELSE "ok"]
    ELSE IF ops[i] = "raise_StrategyError" THEN
        [s EXCEPT !.result = "StrategyError"]
    ELSE IF i = f THEN
        [LogOp(ops[i], ApplyFailedOp(ops[i], s)) EXCEPT !.result = exc,
                                                        !.failed = ops[i]]
    ELSE RunOps(ops, i + 1, f, exc, LogOp(ops[i], ApplyOp(ops[i], s)))

\* indices at which a call can fail: 0 (no failure) and every fallible operation
FailPoints(ops) == {0} \cup {i \in 1..Len(ops) : ops[i] \in FallibleOps}

\* the strategy and hardware state as one record, for RunOps
StratState ==
    [status |-> status, bootstrap_done |-> bootstrap_done,
     active |-> hw.active, lastPower |-> hw.lastPower,
     lastPowerOk |-> hw.lastPowerOk, muxMode |-> hw.muxMode,
     writes |-> hw.writes, loads |-> hw.loads,
     ops |-> <<>>, failed |-> "none", result |-> "none"]

\* one call strategy.transition(t) / strategy.force(t), through the never_retry
\* wrapper, with the operation at index f raising exc
StrategyCall(kind, t, f, exc) ==
    LET ops == NeverRetryOps(neverRetry, broken,
                   BodyOps(variant, kind, status, bootstrap_done, no_write, t))
    IN  /\ f \in FailPoints(ops)
        /\ LET r == RunOps(ops, 1, f, exc, StratState)
           IN  /\ status' = r.status
               /\ bootstrap_done' = r.bootstrap_done
               /\ broken' = (broken \/ (neverRetry /\ r.result \notin {"ok", "skip"}))
               /\ hw' = [active |-> r.active, lastPower |-> r.lastPower,
                         lastPowerOk |-> r.lastPowerOk, muxMode |-> r.muxMode,
                         writes |-> r.writes, loads |-> r.loads]
               /\ lastCall' = [kind |-> kind, target |-> t, from |-> status,
                               fromDone |-> bootstrap_done, fromBroken |-> broken,
                               fromHw |-> hw, ops |-> r.ops, failed |-> r.failed,
                               result |-> r.result]
               /\ calls' = calls + 1
        /\ UNCHANGED <<variant, neverRetry, no_write>>

\* a strategy object after construction
StrategyInit ==
    /\ status = "unknown"
    /\ bootstrap_done = FALSE
    /\ broken = FALSE
    /\ hw = HwInit
    /\ lastCall = NoCall
    /\ calls = 0

(***************************************************************************)
(* Place acquisition (cli.py acquire_place, release_place)                 *)
(***************************************************************************)
Sessions == {1, 2}

\* the session of the process whose main() is modelled
Me == 1

Hosts == {"host1", "host2"}

Users == {"user1", "user2"}

Identities == [host : Hosts, user : Users]

\* place.acquired of a place nobody holds
NoHolder == [host |-> "", user |-> ""]

\* acquire_place: "session.getuser() == user and session.gethostname() == host"
\* with only the user compared
SameIdentity_UserOnly(holder, id) == id.user = holder.user

\* acquire_place: "session.getuser() == user and session.gethostname() == host"
SameIdentity(holder, id) == id.user = holder.user /\ id.host = holder.host

\* acquire_place returning True for a place this identity already holds
AcquirePlace_BorrowedIsOwned(s, out) ==
    /\ seen' = [seen EXCEPT ![s] = placeHolder]
    /\ IF placeHolder # NoHolder
       THEN /\ acqResult' = [acqResult EXCEPT ![s] =
                                IF SameIdentity(placeHolder, ident[s])
                                THEN "true" ELSE "conflict"]
            /\ UNCHANGED <<placeHolder, acquireReqs>>
       ELSE /\ acquireReqs' = [acquireReqs EXCEPT ![s] = @ + 1]
            /\ placeHolder' = IF out = "request_fails" THEN placeHolder ELSE ident[s]
            /\ acqResult' = [acqResult EXCEPT ![s] =
                                CASE out = "request_fails" -> "request_error"
                                  [] out = "sync_fails"    -> "sync_error"
                                  [] OTHER                 -> "true"]
    /\ place_acquired' = [place_acquired EXCEPT ![s] = (acqResult'[s] = "true")]
    /\ UNCHANGED <<ident, releaseReqs>>

\* acquire_place(session, place_name); out: how the coordinator requests end
AcquirePlace(s, out) ==
    /\ seen' = [seen EXCEPT ![s] = placeHolder]
    /\ IF placeHolder # NoHolder
       THEN /\ acqResult' = [acqResult EXCEPT ![s] =
                                IF SameIdentity(placeHolder, ident[s])
                                THEN "false" ELSE "conflict"]
            /\ UNCHANGED <<placeHolder, acquireReqs>>
       ELSE /\ acquireReqs' = [acquireReqs EXCEPT ![s] = @ + 1]
            /\ placeHolder' = IF out = "request_fails" THEN placeHolder ELSE ident[s]
            /\ acqResult' = [acqResult EXCEPT ![s] =
                                CASE out = "request_fails" -> "request_error"
                                  [] out = "sync_fails"    -> "sync_error"
                                  [] OTHER                 -> "true"]
    /\ place_acquired' = [place_acquired EXCEPT ![s] = (acqResult'[s] = "true")]
    /\ UNCHANGED <<ident, releaseReqs>>

AcquireOutcomes == {"ok", "request_fails", "sync_fails"}

\* release_place(session, place_name); the coordinator frees the place when the
\* request comes from its holder
ReleasePlace(s, out) ==
    /\ IF placeHolder = NoHolder
       THEN UNCHANGED <<placeHolder, releaseReqs>>
       ELSE /\ releaseReqs' = [releaseReqs EXCEPT ![s] = @ + 1]
            /\ placeHolder' = IF out = "request_fails"
                                 \/ ~SameIdentity(placeHolder, ident[s])
                              THEN placeHolder ELSE NoHolder
    /\ UNCHANGED <<ident, acqResult, seen, place_acquired, acquireReqs>>

ReleaseOutcomes == {"ok", "request_fails", "sync_fails"}

\* cleanup_resources: "if session and place_name and place_acquired and loop"
\* without the place_acquired test
ReleaseGuard_AnyLease(sess, pname, acq, lp) == sess /\ pname /\ lp

\* cleanup_resources: "if session and place_name and place_acquired and loop"
ReleaseGuard(sess, pname, acq, lp) == sess /\ pname /\ acq /\ lp

PlaceInit ==
    /\ placeHolder \in {NoHolder} \cup Identities
    /\ acqResult = [s \in Sessions |-> "none"]
    /\ seen = [s \in Sessions |-> NoHolder]
    /\ place_acquired = [s \in Sessions |-> FALSE]
    /\ acquireReqs = [s \in Sessions |-> 0]
    /\ releaseReqs = [s \in Sessions |-> 0]
    /\ pcP = [s \in Sessions |-> "start"]

(***************************************************************************)
(* main() and cleanup_resources (cli.py)                                   *)
(***************************************************************************)
\* bound on the number of teardown steps made to raise in one run
MaxCleanupFailures == 1

MainLocalsInit ==
    [place_name |-> FALSE, session |-> FALSE, loop |-> FALSE, target |-> FALSE,
     console |-> FALSE, output_fd |-> FALSE, input_fifo |-> FALSE,
     fifo_created |-> FALSE, env |-> FALSE]

MainInit ==
    /\ pc = "setup"
    /\ main = MainLocalsInit
    /\ sessionState = "none"
    /\ powered_off = FALSE
    /\ tdStep = 1
    /\ tdLog = <<>>
    /\ tdRaised = {}
    /\ mainResult = -1
    /\ exitCode = -1

\* main(): "except KeyboardInterrupt: return 130", "except Exception: return 1"
ResultOf(exc) == IF exc = "KeyboardInterrupt" THEN 130 ELSE 1

Exceptions == {"Exception", "KeyboardInterrupt"}

\* main() leaves its try block with result r: the finally clause runs next
EnterTeardown(r) ==
    /\ mainResult' = r
    /\ pc' = "teardown"

\* main(): FIFO, input file, output file, environment, find_place_name
Setup ==
    /\ pc = "setup"
    /\ \E fifo \in {"none", "existing", "created"}, out \in BOOLEAN :
         LET m == [main EXCEPT !.input_fifo = (fifo # "none"),
                               !.fifo_created = (fifo = "created"),
                               !.output_fd = out]
         IN  \/ /\ \E pn \in BOOLEAN :
                       main' = [m EXCEPT !.env = TRUE, !.place_name = pn]
                /\ pc' = IF main'.place_name THEN "coordinator" ELSE "get_target"
                /\ UNCHANGED mainResult
             \/ /\ \E exc \in Exceptions : EnterTeardown(ResultOf(exc))
                /\ main' = m
    /\ UNCHANGED <<sessionState, powered_off, tdStep, tdLog, tdRaised, exitCode>>
    /\ UNCHANGED <<stratVars, placeVars>>
    /\ UNCHANGED <<consoleVars, imageVars>>

\* setup_coordinator_session: start_session, prepare_manager, acquire_place;
\* main's session and loop are assigned only when it returns
SetupCoordinatorSession ==
    /\ pc = "coordinator"
    /\ \/ /\ \E exc \in Exceptions : EnterTeardown(ResultOf(exc))
          /\ UNCHANGED <<main, sessionState, placeVars>>
       \/ /\ sessionState' = "started"
          /\ \E out \in AcquireOutcomes : AcquirePlace(Me, out)
          /\ UNCHANGED pcP
          /\ IF acqResult'[Me] \in {"true", "false"}
             THEN /\ main' = [main EXCEPT !.session = TRUE, !.loop = TRUE]
                  /\ pc' = "get_target"
                  /\ UNCHANGED mainResult
             ELSE /\ EnterTeardown(1)
                  /\ UNCHANGED main
    /\ UNCHANGED <<powered_off, tdStep, tdLog, tdRaised, exitCode>>
    /\ UNCHANGED stratVars
    /\ UNCHANGED <<consoleVars, imageVars>>

\* main(): env.get_target, target.get_driver(ConsoleProtocol, activate=False)
GetTarget ==
    /\ pc = "get_target"
    /\ \/ /\ \E exc \in Exceptions : EnterTeardown(ResultOf(exc))
          /\ UNCHANGED main
       \/ /\ main' = [main EXCEPT !.target = TRUE]
          /\ \E exc \in Exceptions : EnterTeardown(ResultOf(exc))
       \/ /\ main' = [main EXCEPT !.target = TRUE, !.console = TRUE]
          /\ pc' = "bootstrap"
          /\ UNCHANGED mainResult
    /\ UNCHANGED <<sessionState, powered_off, tdStep, tdLog, tdRaised, exitCode>>
    /\ UNCHANGED <<stratVars, placeVars>>
    /\ UNCHANGED <<consoleVars, imageVars>>

\* bootstrap_target(target, console, args, state=args.state)
BootstrapTarget ==
    /\ pc = "bootstrap"
    /\ \/ /\ variant = "none"
          /\ pc' = "console"
          /\ UNCHANGED <<stratVars, mainResult>>
       \/ /\ variant # "none"
          /\ pc' = "console"
          /\ UNCHANGED <<stratVars, mainResult>>
       \/ /\ variant # "none"
          /\ \E state \in BootstrapStatus, f \in 0..20, exc \in Exceptions :
                 StrategyCall("transition", state, f, exc)
          /\ IF lastCall'.result = "ok"
             THEN pc' = "console" /\ UNCHANGED mainResult
             ELSE EnterTeardown(ResultOf(lastCall'.result))
    /\ UNCHANGED <<main, sessionState, powered_off, tdStep, tdLog, tdRaised, exitCode>>
    /\ UNCHANGED placeVars
    /\ UNCHANGED <<consoleVars, imageVars>>

\* main(): non_interactive_console / interactive_console, then "return 0"
Console ==
    /\ pc = "console"
    /\ \/ EnterTeardown(0)
       \/ \E exc \in Exceptions : EnterTeardown(ResultOf(exc))
    /\ UNCHANGED <<main, sessionState, powered_off, tdStep, tdLog, tdRaised, exitCode>>
    /\ UNCHANGED <<stratVars, placeVars>>
    /\ UNCHANGED <<consoleVars, imageVars>>

\* cleanup_resources with the place release moved before the power-off
TeardownOrder_ReleaseFirst ==
    <<"deactivate_console", "release_place", "strategy_off", "power_fallback",
      "deactivate_all_drivers", "session_stop_close", "loop_close",
      "close_output", "remove_fifo", "target_cleanup", "env_cleanup",
      "steplogger_stop">>

\* cleanup_resources: its steps in program order
TeardownOrder ==
    <<"deactivate_console", "strategy_off", "power_fallback",
      "deactivate_all_drivers", "release_place", "session_stop_close",
      "loop_close", "close_output", "remove_fifo", "target_cleanup",
      "env_cleanup", "steplogger_stop">>

\* cleanup_resources: the condition guarding each step
StepApplies(step) ==
    CASE step = "deactivate_console"     -> main.console /\ main.target
      [] step = "strategy_off"           -> main.target
      [] step = "power_fallback"         -> main.target /\ ~powered_off
      [] step = "deactivate_all_drivers" -> main.target
      [] step = "release_place"          ->
             ReleaseGuard(main.session, main.place_name, place_acquired[Me],
                          main.loop)
      [] step = "session_stop_close"     -> main.session /\ main.loop
      [] step = "loop_close"             -> main.loop
      [] step = "close_output"           -> main.output_fd
      [] step = "remove_fifo"            -> main.fifo_created /\ main.input_fifo
      [] step = "target_cleanup"         -> main.target
      [] step = "env_cleanup"            -> main.env
      [] OTHER                           -> TRUE

\* cleanup_resources with no try/except around the strategy power-off
CleanupCatches_PowerOffEscapes(step) == step # "strategy_off"

\* cleanup_resources: every step sits in its own try/except Exception
CleanupCatches(step) == TRUE

\* what one teardown step does to the drivers, the place and the session;
\* inject: the step is made to raise
StepEffect(step, inject) ==
    CASE step = "deactivate_console" ->
             /\ hw' = IF inject THEN hw ELSE [hw EXCEPT !.active = @ \ {"console"}]
             /\ UNCHANGED <<variant, neverRetry, no_write, status, bootstrap_done,
                            broken, lastCall, calls>>
             /\ UNCHANGED <<placeVars, sessionState, powered_off>>
      [] step = "strategy_off" ->
             /\ IF variant = "none"
                THEN /\ powered_off' = FALSE
                     /\ UNCHANGED stratVars
                ELSE /\ \E f \in 0..20 :
                            /\ (f # 0) = inject
                            /\ StrategyCall("transition", "off", f, "Exception")
                     /\ powered_off' = (lastCall'.result \in {"ok", "skip"})
             /\ UNCHANGED <<placeVars, sessionState>>
      [] step = "power_fallback" ->
             /\ \/ /\ ~inject \/ variant # "none"
                   /\ hw' = [hw EXCEPT !.lastPower = "off", !.lastPowerOk = ~inject]
                \/ /\ inject /\ variant = "none"
                   /\ hw' = hw
             /\ UNCHANGED <<variant, neverRetry, no_write, status, bootstrap_done,
                            broken, lastCall, calls>>
             /\ UNCHANGED <<placeVars, sessionState, powered_off>>
      [] step = "deactivate_all_drivers" ->
             /\ hw' = IF inject THEN hw ELSE [hw EXCEPT !.active = {}]
             /\ UNCHANGED <<variant, neverRetry, no_write, status, bootstrap_done,
                            broken, lastCall, calls>>
             /\ UNCHANGED <<placeVars, sessionState, powered_off>>
      [] step = "release_place" ->
             /\ \E out \in ReleaseOutcomes :
                    /\ (out # "ok") = inject
                    /\ ReleasePlace(Me, out)
             /\ UNCHANGED pcP
             /\ UNCHANGED <<stratVars, sessionState, powered_off>>
      [] step = "session_stop_close" ->
             /\ \/ ~inject /\ sessionState' = "closed"
                \/ inject /\ sessionState' \in {"started", "stopped"}
             /\ UNCHANGED <<stratVars, placeVars, powered_off>>
      [] OTHER ->
             UNCHANGED <<stratVars, placeVars, sessionState, powered_off>>

\* the step raised
StepRaised(step, inject) ==
    CASE step = "strategy_off" ->
             variant = "none" \/ lastCall'.result \notin {"ok", "skip"}
      [] step = "release_place" -> inject /\ placeHolder # NoHolder
      [] OTHER -> inject

\* cleanup_resources, one step at a time
Teardown ==
    /\ pc = "teardown"
    /\ LET step == TeardownOrder[tdStep]
           last == (tdStep = Len(TeardownOrder))
       IN  \/ /\ ~StepApplies(step)
              /\ tdStep' = tdStep + 1
              /\ pc' = IF last THEN "done" ELSE "teardown"
              /\ exitCode' = IF last THEN mainResult ELSE exitCode
              /\ UNCHANGED <<tdLog, tdRaised, powered_off, sessionState>>
              /\ UNCHANGED <<stratVars, placeVars>>
           \/ /\ StepApplies(step)
              /\ \E inject \in BOOLEAN :
                    /\ inject => Cardinality(tdRaised) < MaxCleanupFailures
                    /\ StepEffect(step, inject)
                    /\ tdLog' = Append(tdLog, step)
                    /\ LET raised == StepRaised(step, inject)
                           escapes == raised /\ ~CleanupCatches(step)
                       IN  /\ tdRaised' = IF raised THEN tdRaised \cup {step}
                                          ELSE tdRaised
                           /\ tdStep' = tdStep + 1
                           /\ pc' = IF last \/ escapes THEN "done" ELSE "teardown"
                           /\ exitCode' = IF escapes THEN 1
                                          ELSE IF last THEN mainResult
                                          ELSE exitCode
    /\ UNCHANGED <<main, mainResult>>
    /\ UNCHANGED <<consoleVars, imageVars>>

(***************************************************************************)
(* Console I/O loop: input source, console and liveness helpers            *)
(***************************************************************************)
\* bounds: bytes returned by one console.read, clock ticks, and the number
\* of quiet cycles past the threshold a loop without a timeout is followed to
MaxOutput == 2
MaxClock == 1
MaxQuiet == 2

\* _read_from_input: b'\x1d' (Ctrl-])
ExitKey == 29

\* non_interactive_console: "quiet_time >= 100"
QuietThreshold == 100

\* bytes arriving on the input source: the exit key and an ordinary byte
InputBytes == {ExitKey, 97}

\* what one os.read(input_fd, 1024) can return as data
InputChunks ==
    {<<b>> : b \in InputBytes} \cup {<<a, b>> : a \in InputBytes, b \in InputBytes}

\* what the input source holds when the loop polls it: nothing, end of
\* file, readable but failing with OSError (EAGAIN), or a chunk of bytes
Offers ==
    {[kind |-> k, data |-> <<>>] : k \in {"none", "eof", "wouldblock"}}
        \cup {[kind |-> "data", data |-> ch] : ch \in InputChunks}

NoOffer == [kind |-> "none", data |-> <<>>]

\* the target's console output is the byte stream 65, 66, 67, ...
ConsoleByte(k) == 64 + k

\* the next n bytes of the console's output after the first k
ConsoleData(k, n) == [i \in 1..n |-> ConsoleByte(k + i)]

\* args.non_interactive
Modes == {"interactive", "unattended"}

\* "tty": stdin is a terminal, "stdin": stdin is not a terminal,
\* "fifo": --input, "file": --file
InputSources == {"tty", "stdin", "fifo", "file"}

\* args.timeout (None counts as 0)
Timeouts == {0, 1}

\* how console.read(timeout=0.05, max_size=4096) can end
ConsoleReadOutcomes ==
    {"data", "empty", "TimeoutError", "BrokenPipeError", "ConnectionError",
     "EOFError", "OSError_critical", "OSError_other", "Exception"}

\* the messages the loops print
MsgClosed == "Console closed (target terminated)"

MsgTimeout == "Timeout reached"

MsgBanner == "=== Console closed ==="

\* the input_fifo / input_file arguments of the console functions
InputFifo(c) == c.source = "fifo"

InputFile(c) == c.source = "file"

\* _read_from_input with the exit key looked for on every source
ReadFromInput_AnySource(offer, input_fifo, input_file, check_ctrl_bracket) ==
    IF offer.kind = "wouldblock"
    THEN [data |-> <<>>, should_exit |-> FALSE, cause |-> "none"]
    ELSE IF offer.kind = "eof"
    THEN IF ~input_fifo /\ ~input_file
         THEN [data |-> <<>>, should_exit |-> TRUE, cause |-> "eof"]
         ELSE [data |-> <<>>, should_exit |-> FALSE, cause |-> "none"]
    ELSE IF check_ctrl_bracket /\ Len(offer.data) = 1 /\ offer.data = <<ExitKey>>
    THEN [data |-> <<>>, should_exit |-> TRUE, cause |-> "exit_key"]
    ELSE [data |-> offer.data, should_exit |-> FALSE, cause |-> "none"]

\* _read_from_input with end of file ending the loop on every source
ReadFromInput_EofExits(offer, input_fifo, input_file, check_ctrl_bracket) ==
    IF offer.kind = "wouldblock"
    THEN [data |-> <<>>, should_exit |-> FALSE, cause |-> "none"]
    ELSE IF offer.kind = "eof"
    THEN [data |-> <<>>, should_exit |-> TRUE, cause |-> "eof"]
    ELSE IF /\ check_ctrl_bracket /\ ~input_fifo /\ ~input_file
            /\ Len(offer.data) = 1 /\ offer.data = <<ExitKey>>
    THEN [data |-> <<>>, should_exit |-> TRUE, cause |-> "exit_key"]
    ELSE [data |-> offer.data, should_exit |-> FALSE, cause |-> "none"]

\* _read_from_input(input_fd, input_fifo, input_file, is_file, check_ctrl_bracket):
\* data is <<>> for None
ReadFromInput(offer, input_fifo, input_file, check_ctrl_bracket) ==
    IF offer.kind = "wouldblock"
    THEN [data |-> <<>>, should_exit |-> FALSE, cause |-> "none"]
    ELSE IF offer.kind = "eof"
    THEN IF ~input_fifo /\ ~input_file
         THEN [data |-> <<>>, should_exit |-> TRUE, cause |-> "eof"]
         ELSE [data |-> <<>>, should_exit |-> FALSE, cause |-> "none"]
    ELSE IF /\ check_ctrl_bracket /\ ~input_fifo /\ ~input_file
            /\ Len(offer.data) = 1 /\ offer.data = <<ExitKey>>
    THEN [data |-> <<>>, should_exit |-> TRUE, cause |-> "exit_key"]
    ELSE [data |-> offer.data, should_exit |-> FALSE, cause |-> "none"]

\* _read_from_console reporting every exception but TimeoutError as a
\* closed connection
ReadFromConsole_AnyErrorCloses(outcome) ==
    outcome \in {"data", "empty", "TimeoutError"}

\* _read_from_console: console_alive for each way console.read can end
ReadFromConsole(outcome) ==
    CASE outcome \in {"data", "empty", "TimeoutError"} -> TRUE
      [] outcome \in {"BrokenPipeError", "ConnectionError", "EOFError"} -> FALSE
      [] outcome = "OSError_critical" -> FALSE
      [] OTHER -> TRUE

\* _check_console_alive: only a QEMU console with a child process is polled
CheckConsoleAlive(c, up) == IF c.qemu THEN up ELSE TRUE

\* interactive_console: monitor_input; non_interactive_console: read_fds
MonitorInput(c) ==
    IF c.mode = "interactive"
    THEN c.source \in {"fifo", "file", "tty"}
    ELSE c.source \in {"fifo", "file"}

\* the locals of a console function before its try block, the terminal, and
\* the streams it writes
ConInit ==
    [pc |-> "idle", input_fd |-> "none", old_settings |-> FALSE,
     termRaw |-> FALSE, stop_requested |-> FALSE, sigintHandler |-> "default",
     quiet_time |-> 0, printed |-> <<>>, cause |-> "none", sigint |-> FALSE,
     exc |-> "none", sawWait |-> FALSE, wrote |-> <<>>, got |-> <<>>,
     shown |-> <<>>, logged |-> <<>>]

\* no part of the loop body has run yet
NoStep ==
    [offer |-> NoOffer, ops |-> <<>>, live |-> TRUE, expired |-> FALSE,
     read |-> "none"]

\* the console functions have not been called
ConsoleIdle ==
    /\ cfg = [mode |-> "interactive", source |-> "tty", timeout |-> 0,
              qemu |-> FALSE, log |-> FALSE]
    /\ con = ConInit
    /\ alive = TRUE
    /\ now = 0
    /\ lastStep = NoStep

(***************************************************************************)
(* Console I/O loop: the loop body as lists of operations                  *)
(***************************************************************************)
\* one operation of the loop body
Op(name) == [op |-> name, data |-> <<>>, cause |-> "none", ok |-> TRUE]

OpData(name, d) == [op |-> name, data |-> d, cause |-> "none", ok |-> TRUE]

Break(cause) == [op |-> "break", data |-> <<>>, cause |-> cause, ok |-> TRUE]

\* the calls during which the loop waits, where a SIGINT is delivered
BlockingOps == {"select", "sleep", "read_input", "console_write", "console_read"}

\* the calls whose exception no handler inside the loop catches
UncaughtOps == {"select", "screen_write", "log_write"}

\* the input part of a loop body that goes on to the console read after a
\* failed console write
InputOps_WriteFailureIgnored(c, offer, wfail) ==
    LET r == ReadFromInput(offer, InputFifo(c), InputFile(c),
                           c.mode = "interactive")
    IN  IF ~(MonitorInput(c) /\ offer.kind # "none")
        THEN <<>>
        ELSE <<OpData("read_input", offer.data)>> \o
             (IF r.should_exit
              THEN <<Break(r.cause)>>
              ELSE IF r.data # <<>>
              THEN IF wfail
                   THEN <<[OpData("console_write", r.data) EXCEPT !.ok = FALSE]>>
                   ELSE <<OpData("console_write", r.data)>> \o
                        (IF c.mode = "unattended" THEN <<Op("reset_quiet")>>
                         ELSE <<>>)
              ELSE <<Op("wait_for_more")>>)

\* loop body, "Read from input source and send to console"
\* (interactive_console 700-710, non_interactive_console 797-809)
InputOps(c, offer, wfail) ==
    LET r == ReadFromInput(offer, InputFifo(c), InputFile(c),
                           c.mode = "interactive")
    IN  IF ~(MonitorInput(c) /\ offer.kind # "none")
        THEN <<>>
        ELSE <<OpData("read_input", offer.data)>> \o
             (IF r.should_exit
              THEN <<Break(r.cause)>>
              ELSE IF r.data # <<>>
              THEN IF wfail
                   THEN <<[OpData("console_write", r.data) EXCEPT !.ok = FALSE],
                          Op("report_closed"), Break("write_failure")>>
                   ELSE <<OpData("console_write", r.data)>> \o
                        (IF c.mode = "unattended" THEN <<Op("reset_quiet")>>
                         ELSE <<>>)
              ELSE <<Op("wait_for_more")>>)

\* the loop head without the elapsed-time test
HeadOps_NoTimeoutCheck(c, up, t, offer, wfail) ==
    IF ~CheckConsoleAlive(c, up)
    THEN <<Op("check_alive"), Op("report_closed"), Break("liveness")>>
    ELSE <<Op("check_alive"), Op("check_timeout"),
           Op(IF MonitorInput(c) THEN "select" ELSE "sleep")>>
             \o InputOps(c, offer, wfail)

\* the loop head with the timeout checked before the liveness
HeadOps_TimeoutFirst(c, up, t, offer, wfail) ==
    IF c.timeout > 0 /\ t >= c.timeout
    THEN <<Op("check_timeout"), Op("report_timeout"), Break("timeout")>>
    ELSE IF ~CheckConsoleAlive(c, up)
    THEN <<Op("check_timeout"), Op("check_alive"), Op("report_closed"),
           Break("liveness")>>
    ELSE <<Op("check_timeout"), Op("check_alive"),
           Op(IF MonitorInput(c) THEN "select" ELSE "sleep")>>
             \o InputOps(c, offer, wfail)

\* first half of the loop body of interactive_console (681-710) and
\* non_interactive_console (775-809): liveness check, timeout check, poll
\* of the input source, input forwarded to the console; up: the target's
\* state, t: the elapsed time, offer/wfail: what the environment does
HeadOps(c, up, t, offer, wfail) ==
    IF ~CheckConsoleAlive(c, up)
    THEN <<Op("check_alive"), Op("report_closed"), Break("liveness")>>
    ELSE IF c.timeout > 0 /\ t >= c.timeout
    THEN <<Op("check_alive"), Op("check_timeout"), Op("report_timeout"),
           Break("timeout")>>
    ELSE <<Op("check_alive"), Op("check_timeout"),
           Op(IF MonitorInput(c) THEN "select" ELSE "sleep")>>
             \o InputOps(c, offer, wfail)

\* the second half with the input bytes of the iteration echoed to the log
OutputOps_LogInput(c, s, outcome, n) ==
    LET data == IF outcome = "data" THEN ConsoleData(0, n) ELSE <<>>
        log  == IF c.log THEN <<OpData("log_write", s.wrote \o data)>> ELSE <<>>
    IN  <<OpData("console_read", data)>> \o
        (IF ~ReadFromConsole(outcome)
         THEN <<Op("report_closed"), Break("read_closed")>>
         ELSE IF data # <<>>
         THEN IF c.mode = "interactive"
              THEN <<OpData("screen_write", data)>> \o log
              ELSE log \o <<Op("reset_quiet")>>
         ELSE IF c.mode = "interactive"
         THEN <<>>
         ELSE <<Op("inc_quiet")>> \o
              (IF c.timeout > 0 /\ s.quiet_time + 1 >= QuietThreshold
               THEN <<Break("quiet")>> ELSE <<>>))

\* the loop left one cycle after the quiet threshold is reached
OutputOps_LateQuietExit(c, s, outcome, n) ==
    LET data == IF outcome = "data" THEN ConsoleData(0, n) ELSE <<>>
        log  == IF c.log THEN <<OpData("log_write", data)>> ELSE <<>>
    IN  <<OpData("console_read", data)>> \o
        (IF ~ReadFromConsole(outcome)
         THEN <<Op("report_closed"), Break("read_closed")>>
         ELSE IF data # <<>>
         THEN IF c.mode = "interactive"
              THEN <<OpData("screen_write", data)>> \o log
              ELSE log \o <<Op("reset_quiet")>>
         ELSE IF c.mode = "interactive"
         THEN <<>>
         ELSE <<Op("inc_quiet")>> \o
              (IF c.timeout > 0 /\ s.quiet_time + 1 > QuietThreshold
               THEN <<Break("quiet")>> ELSE <<>>))

\* the second half with the quiet-period exit taken whatever the timeout is
OutputOps_QuietExitAlways(c, s, outcome, n) ==
    LET data == IF outcome = "data" THEN ConsoleData(0, n) ELSE <<>>
        log  == IF c.log THEN <<OpData("log_write", data)>> ELSE <<>>
    IN  <<OpData("console_read", data)>> \o
        (IF ~ReadFromConsole(outcome)
         THEN <<Op("report_closed"), Break("read_closed")>>
         ELSE IF data # <<>>
         THEN IF c.mode = "interactive"
              THEN <<OpData("screen_write", data)>> \o log
              ELSE log \o <<Op("reset_quiet")>>
         ELSE IF c.mode = "interactive"
         THEN <<>>
         ELSE <<Op("inc_quiet")>> \o
              (IF s.quiet_time + 1 >= QuietThreshold
               THEN <<Break("quiet")>> ELSE <<>>))

\* the second half with console output that leaves the quiet time as it is
OutputOps_NoQuietReset(c, s, outcome, n) ==
    LET data == IF outcome = "data" THEN ConsoleData(0, n) ELSE <<>>
        log  == IF c.log THEN <<OpData("log_write", data)>> ELSE <<>>
    IN  <<OpData("console_read", data)>> \o
        (IF ~ReadFromConsole(outcome)
         THEN <<Op("report_closed"), Break("read_closed")>>
         ELSE IF data # <<>>
         THEN IF c.mode = "interactive"
              THEN <<OpData("screen_write", data)>> \o log
              ELSE log
         ELSE IF c.mode = "interactive"
         THEN <<>>
         ELSE <<Op("inc_quiet")>> \o
              (IF c.timeout > 0 /\ s.quiet_time + 1 >= QuietThreshold
               THEN <<Break("quiet")>> ELSE <<>>))

\* second half of the loop body of interactive_console (712-721) and
\* non_interactive_console (811-825): the console is read, its output goes
\* to the screen and the log, the quiet time is counted
OutputOps(c, s, outcome, n) ==
    LET data == IF outcome = "data" THEN ConsoleData(0, n) ELSE <<>>
        log  == IF c.log THEN <<OpData("log_write", data)>> ELSE <<>>
    IN  <<OpData("console_read", data)>> \o
        (IF ~ReadFromConsole(outcome)
         THEN <<Op("report_closed"), Break("read_closed")>>
         ELSE IF data # <<>>
         THEN IF c.mode = "interactive"
              THEN <<OpData("screen_write", data)>> \o log
              ELSE log \o <<Op("reset_quiet")>>
         ELSE IF c.mode = "interactive"
         THEN <<>>
         ELSE <<Op("inc_quiet")>> \o
              (IF c.timeout > 0 /\ s.quiet_time + 1 >= QuietThreshold
               THEN <<Break("quiet")>> ELSE <<>>))

\* what one operation does to the locals and to the streams
ApplyLoopOp(o, s) ==
    CASE o.op = "console_write" ->
             IF o.ok THEN [s EXCEPT !.wrote = o.data] ELSE s
      [] o.op = "wait_for_more" -> [s EXCEPT !.sawWait = TRUE]
      [] o.op = "console_read"  -> [s EXCEPT !.got = o.data]
      [] o.op = "screen_write"  -> [s EXCEPT !.shown = @ \o o.data]
      [] o.op = "log_write"     -> [s EXCEPT !.logged = @ \o o.data]
      [] o.op = "reset_quiet"   -> [s EXCEPT !.quiet_time = 0]
      [] o.op = "inc_quiet"     -> [s EXCEPT !.quiet_time = @ + 1]
      [] o.op = "report_closed" -> [s EXCEPT !.printed = Append(@, MsgClosed)]
      [] o.op = "report_timeout" -> [s EXCEPT !.printed = Append(@, MsgTimeout)]
      [] o.op = "break"         -> [s EXCEPT !.pc = "exiting", !.cause = o.cause]
      [] OTHER -> s

\* the operations ops[i..] applied to s; at ops[f] a SIGINT is delivered
\* (kind "sigint") or the call raises (kind "error"); f = 0: neither.
\* interactive_console: the KeyboardInterrupt leaves the loop through
\* "except KeyboardInterrupt: pass"; non_interactive_console: its
\* signal_handler sets stop_requested and the interrupted call goes on
RECURSIVE RunLoopOps(_, _, _, _, _)

RunLoopOps(ops, i, f, kind, s) ==
    IF i > Len(ops) \/ s.pc = "exiting" THEN s
    ELSE IF i = f /\ kind = "error"
    THEN [s EXCEPT !.pc = "exiting", !.cause = "exception", !.exc = "Exception"]
    ELSE IF i = f /\ kind = "sigint" /\ s.sigintHandler = "default"
    THEN [s EXCEPT !.pc = "exiting", !.cause = "interrupt", !.sigint = TRUE]
    ELSE IF i = f /\ kind = "sigint"
    THEN RunLoopOps(ops, i + 1, f, kind,
                    ApplyLoopOp(ops[i], [s EXCEPT !.stop_requested = TRUE,
                                                  !.sigint = TRUE]))
    ELSE RunLoopOps(ops, i + 1, f, kind, ApplyLoopOp(ops[i], s))

\* the names of the operations started: those up to ops[f] when the SIGINT
\* or the exception at ops[f] ended the loop, all of them otherwise
OpsStarted(ops, f, kind, handler) ==
    LET m == IF kind = "error" \/ (kind = "sigint" /\ handler = "default")
             THEN f ELSE Len(ops)
    IN  [i \in 1..m |-> ops[i].op]

\* where in a list of operations a SIGINT can arrive or an uncaught
\* exception be raised; with the flag-setting handler every point has the
\* same effect
Disturbances(ops, handler) ==
    LET blocking == {i \in DOMAIN ops : ops[i].op \in BlockingOps}
        first    == {i \in blocking : \A j \in blocking : i <= j}
    IN  {<<0, "none">>}
            \cup {<<i, "sigint">> : i \in IF handler = "flag" THEN first
                                          ELSE blocking}
            \cup {<<i, "error">> : i \in {j \in DOMAIN ops :
                                             ops[j].op \in UncaughtOps}}

(***************************************************************************)
(* Console I/O loop: the actions                                           *)
(***************************************************************************)
\* _open_input_source (interactive_console) and the os.open calls of
\* non_interactive_console, which never touches the terminal
OpenInputSource(c, s) ==
    IF c.source \in {"file", "fifo"}
    THEN [s EXCEPT !.input_fd = "open"]
    ELSE IF c.mode = "unattended"
    THEN s
    ELSE IF c.source = "tty"
    THEN [s EXCEPT !.input_fd = "stdin", !.old_settings = TRUE, !.termRaw = TRUE]
    ELSE [s EXCEPT !.input_fd = "stdin"]

\* _close_input_source without the tcsetattr call
CloseInputSource_NoRestore(c, s) ==
    IF c.mode = "interactive"
    THEN [s EXCEPT !.input_fd = IF c.source \in {"fifo", "file"} /\ @ # "none"
                                 THEN "closed" ELSE @]
    ELSE [s EXCEPT !.input_fd = IF @ # "none" THEN "closed" ELSE @]

\* _close_input_source (interactive_console) and the os.close of
\* non_interactive_console's finally clause
CloseInputSource(c, s) ==
    IF c.mode = "interactive"
    THEN [s EXCEPT !.termRaw = IF s.old_settings THEN FALSE ELSE @,
                   !.input_fd = IF c.source \in {"fifo", "file"} /\ @ # "none"
                                THEN "closed" ELSE @]
    ELSE [s EXCEPT !.input_fd = IF @ # "none" THEN "closed" ELSE @]

\* the finally clause of a console function that raises when the console
\* connection was found closed
Finally_ClosedRaises(c, s) ==
    [CloseInputSource(c, s) EXCEPT
        !.printed = Append(@, MsgBanner),
        !.pc = IF s.exc = "none" /\ s.cause \notin {"read_closed", "write_failure"}
               THEN "returned" ELSE "raised"]

\* the finally clause of both console functions, and how the function ends
Finally(c, s) ==
    [CloseInputSource(c, s) EXCEPT
        !.printed = Append(@, MsgBanner),
        !.pc = IF s.exc = "none" THEN "returned" ELSE "raised"]

\* the end of a pass through the loop body: "while not stop_requested"
\* (non_interactive_console), and the finally clause if the loop is left
LoopEnd(c, s) ==
    LET t == IF s.pc # "exiting" /\ s.stop_requested
             THEN [s EXCEPT !.pc = "exiting", !.cause = "interrupt"]
             ELSE s
    IN  IF t.pc = "exiting" THEN Finally(c, t) ELSE [t EXCEPT !.pc = "loop"]

\* main() calls interactive_console or non_interactive_console: the lines
\* before the try block, then the opening of the input source
ConsoleCall ==
    /\ pc = "console"
    /\ con.pc = "idle"
    /\ \E ev \in {"none", "sigint_before_try", "open_error", "sigint_open"} :
         LET armed == [con EXCEPT !.sigintHandler =
                          IF cfg.mode = "unattended" THEN "flag" ELSE @]
         IN  CASE ev = "sigint_before_try" ->
                      con' = [con EXCEPT !.pc = "raised", !.sigint = TRUE,
                                         !.cause = "interrupt",
                                         !.exc = "KeyboardInterrupt"]
               [] ev = "open_error" ->
                      /\ cfg.source \in {"fifo", "file"}
                      /\ con' = Finally(cfg, [armed EXCEPT !.cause = "exception",
                                                           !.exc = "Exception"])
               [] ev = "sigint_open" ->
                      /\ cfg.source \in {"fifo", "file"}
                      /\ con' = IF cfg.mode = "interactive"
                                THEN Finally(cfg, [armed EXCEPT !.sigint = TRUE,
                                                       !.cause = "interrupt"])
                                ELSE LoopEnd(cfg,
                                       [OpenInputSource(cfg, armed) EXCEPT
                                           !.sigint = TRUE,
                                           !.stop_requested = TRUE])
               [] OTHER ->
                      con' = [OpenInputSource(cfg, armed) EXCEPT !.pc = "loop"]
    /\ UNCHANGED <<cfg, alive, now, lastStep>>
    /\ UNCHANGED <<stratVars, placeVars, mainVars, imageVars>>

\* what the input source can hold when polled: in unattended mode the
\* keyboard is no input source
OffersFor(c) ==
    IF c.mode = "unattended" /\ c.source \in {"tty", "stdin"}
    THEN {NoOffer} ELSE Offers

\* the first half of one loop iteration, with the finally clause when it
\* leaves the loop
LoopInput ==
    /\ pc = "console"
    /\ con.pc = "loop"
    /\ \E offer \in OffersFor(cfg) :
       \E wfail \in IF MonitorInput(cfg) /\ offer.kind = "data"
                    THEN BOOLEAN ELSE {FALSE} :
         LET ops == HeadOps(cfg, alive, now, offer, wfail)
         IN  \E d \in Disturbances(ops, con.sigintHandler) :
               LET s == RunLoopOps(ops, 1, d[1], d[2],
                                   [con EXCEPT !.wrote = <<>>, !.got = <<>>,
                                               !.shown = <<>>, !.logged = <<>>])
               IN  /\ con' = IF s.pc = "exiting" THEN Finally(cfg, s)
                             ELSE [s EXCEPT !.pc = "output"]
                   /\ lastStep' =
                        [offer |-> offer,
                         ops |-> OpsStarted(ops, d[1], d[2], con.sigintHandler),
                         live |-> CheckConsoleAlive(cfg, alive),
                         expired |-> (cfg.timeout > 0 /\ now >= cfg.timeout),
                         read |-> "none"]
    /\ UNCHANGED <<cfg, alive, now>>
    /\ UNCHANGED <<stratVars, placeVars, mainVars, imageVars>>

\* the second half of one loop iteration, with the loop condition and the
\* finally clause when it leaves the loop
LoopOutput ==
    /\ pc = "console"
    /\ con.pc = "output"
    /\ \E outcome \in ConsoleReadOutcomes :
       \E n \in IF outcome = "data" THEN 1..MaxOutput ELSE {1} :
         LET ops == OutputOps(cfg, con, outcome, n)
         IN  \E d \in Disturbances(ops, con.sigintHandler) :
               LET s == RunLoopOps(ops, 1, d[1], d[2], con)
               IN  /\ cfg.timeout = 0 => s.quiet_time <= QuietThreshold + MaxQuiet
                   /\ con' = LoopEnd(cfg, s)
                   /\ lastStep' =
                        [offer |-> NoOffer,
                         ops |-> OpsStarted(ops, d[1], d[2], con.sigintHandler),
                         live |-> TRUE, expired |-> FALSE,
                         read |-> outcome]
    /\ UNCHANGED <<cfg, alive, now>>
    /\ UNCHANGED <<stratVars, placeVars, mainVars, imageVars>>

\* time passes while a loop that has a timeout runs
Tick ==
    /\ pc = "console"
    /\ con.pc \in {"loop", "output"}
    /\ cfg.timeout > 0
    /\ now < MaxClock
    /\ now' = now + 1
    /\ UNCHANGED <<cfg, con, alive, lastStep>>
    /\ UNCHANGED <<stratVars, placeVars, mainVars, imageVars>>

\* the QEMU process behind the console exits while the loop runs
TargetExits ==
    /\ pc = "console"
    /\ con.pc \in {"loop", "output"}
    /\ cfg.qemu
    /\ alive
    /\ alive' = FALSE
    /\ UNCHANGED <<cfg, con, now, lastStep>>
    /\ UNCHANGED <<stratVars, placeVars, mainVars, imageVars>>

\* main(): the console function returned ("return 0") or raised (the
\* except clauses of main)
ConsoleReturn ==
    /\ pc = "console"
    /\ con.pc \in {"returned", "raised"}
    /\ EnterTeardown(IF con.pc = "returned" THEN 0 ELSE ResultOf(con.exc))
    /\ UNCHANGED <<main, sessionState, powered_off, tdStep, tdLog, tdRaised,
                   exitCode>>
    /\ UNCHANGED <<stratVars, placeVars, consoleVars, imageVars>>

(***************************************************************************)
(* Image selection: the images section of the configuration                *)
(***************************************************************************)
\* bounds: entries of one image dictionary, --image options on the command line
MaxImages == 2
MaxOverrides == 2

ImageNames == {"barebox", "tfa"}

\* names of image sets under 'image-sets:'
SetNames == {"default", "known_good"}

\* a configured value: a path string, a dictionary with an 'image' key, or a
\* dictionary without one
ValueKinds == {"path", "attrs", "attrs_no_image"}

\* paths given on the command line: relative and absolute
Paths == {"new.img", "/abs/new.img"}

\* the path an image has in the configuration file
ConfigPath(name) == IF name = "barebox" THEN "barebox.img" ELSE "tfa.img"

\* os.path.realpath
RealPath(path) == IF path = "new.img" THEN "/cwd/new.img" ELSE path

\* a dictionary of the YAML file, in the order of its keys
ImageDicts ==
    {d \in UNION {[1..n -> [name : ImageNames, kind : ValueKinds]] : n \in 0..MaxImages} :
        \A i, j \in DOMAIN d : i # j => d[i].name # d[j].name}

\* a key that the configuration does not have
Absent == <<[name |-> "absent", kind |-> "absent"]>>

\* one --image option, split at '=': <<path>> or <<name, path>>
Overrides ==
    {<<p>> : p \in Paths}
        \cup {<<n, p>> : n \in ImageNames \cup {"missing"}, p \in Paths}

OverrideLists == UNION {[1..n -> Overrides] : n \in 0..MaxOverrides}

\* the keys of a dictionary
Keys(d) == {d[i].name : i \in DOMAIN d}

\* normalize_image_config: the name-to-path dictionary, or ValueError
NormalizeImageConfig(d) ==
    IF \E i \in DOMAIN d : d[i].kind = "attrs_no_image"
    THEN [error |-> TRUE, images |-> <<>>]
    ELSE [error |-> FALSE,
          images |-> [i \in DOMAIN d |->
                         [name |-> d[i].name, path |-> ConfigPath(d[i].name)]]]

\* load_environment, "Handle --images": the images the run will use, or exit
SelectImages(in) ==
    LET sets == {n \in SetNames : in.image_sets[n] # Absent}
    IN  IF sets # {}
        THEN IF in.image_set \notin sets \/ in.image_sets[in.image_set] = <<>>
             THEN [error |-> TRUE, images |-> <<>>]
             ELSE NormalizeImageConfig(in.image_sets[in.image_set])
        ELSE IF in.images # Absent /\ in.images # <<>>
        THEN NormalizeImageConfig(in.images)
        ELSE [error |-> TRUE, images |-> <<>>]

\* load_environment, one pass of "for override in image_overrides"
ApplyOverride(r, ov) ==
    IF Len(ov) = 2
    THEN IF ov[1] \in Keys(r.images)
         THEN [r EXCEPT !.images =
                  [i \in DOMAIN @ |-> IF @[i].name = ov[1]
                                       THEN [@[i] EXCEPT !.path = RealPath(ov[2])]
                                       ELSE @[i]]]
         ELSE [r EXCEPT !.warnings = Append(@, ov[1])]
    ELSE [r EXCEPT !.images[1].path = RealPath(ov[1])]

RECURSIVE ApplyOverrides(_, _, _)
\* load_environment, "Override image paths if --image was specified"
ApplyOverrides(r, ovs, i) ==
    IF i > Len(ovs) \/ r.status # "loading" THEN r
    ELSE ApplyOverrides(ApplyOverride(r, ovs[i]), ovs, i + 1)

NoEnv ==
    [status |-> "none", selected |-> <<>>, images |-> <<>>, warnings |-> <<>>,
     no_write |-> FALSE]

\* load_environment has not been called
ImagesIdle ==
    /\ envIn = [image_sets |-> [n \in SetNames |-> Absent], images |-> Absent,
                image_set |-> "default", image_overrides |-> <<>>,
                no_write |-> FALSE]
    /\ envOut = NoEnv

\* load_environment(config_file, image_overrides, image_set, no_write)
LoadEnvironment ==
    /\ envOut.status = "none"
    /\ LET sel == SelectImages(envIn)
       IN  envOut' =
             IF sel.error THEN [NoEnv EXCEPT !.status = "exit1"]
             ELSE LET r == ApplyOverrides(
                              [NoEnv EXCEPT !.status = "loading",
                                            !.selected = sel.images,
                                            !.images = sel.images],
                              envIn.image_overrides, 1)
                  IN  IF r.status = "loading"
                      THEN [r EXCEPT !.status = "loaded",
                                     !.no_write = envIn.no_write]
                      ELSE r
    /\ UNCHANGED envIn
    /\ UNCHANGED <<stratVars, placeVars, mainVars, consoleVars>>

vars == <<stratVars, placeVars, mainVars, consoleVars, imageVars>>

(***************************************************************************)
(* Spec: one run of the tool, from main() to process exit                  *)
(***************************************************************************)
Init ==
    /\ variant \in Variants \cup {"none"}
    /\ neverRetry \in (IF variant = "none" THEN {FALSE} ELSE BOOLEAN)
    /\ no_write \in (IF variant = "sdmux" THEN BOOLEAN ELSE {FALSE})
    /\ StrategyInit
    /\ ident = [s \in Sessions |-> [host |-> "host1", user |-> "user1"]]
    /\ PlaceInit
    /\ MainInit
    /\ ConsoleIdle
    /\ ImagesIdle

Next ==
    \/ Setup
    \/ SetupCoordinatorSession
    \/ GetTarget
    \/ BootstrapTarget
    \/ Console
    \/ Teardown

Spec == Init /\ [][Next]_vars

(***************************************************************************)
(* SpecStrategy: a strategy object driven by arbitrary calls               *)
(***************************************************************************)
\* what a failing operation of a transition raises: a driver's exception, or
\* the AttributeError of reading self.barebox, which no binding provides
TransitionExceptions == {"Exception", "AttributeError"}

\* strategy.transition(t) called by a user of the strategy
Transition ==
    /\ calls < MaxCalls
    /\ \E t \in BootstrapStatus : \E f \in 0..20 :
       \E exc \in TransitionExceptions :
           /\ StrategyCall("transition", t, f, exc)
           /\ exc = "AttributeError" => lastCall'.failed = "activate_barebox"
    /\ UNCHANGED <<placeVars, mainVars>>
    /\ UNCHANGED <<consoleVars, imageVars>>

\* strategy.force(t) called by a user of the strategy
Force ==
    /\ calls < MaxCalls
    /\ \E t \in BootstrapStatus : \E f \in 0..20 :
           StrategyCall("force", t, f, "Exception")
    /\ UNCHANGED <<placeVars, mainVars>>
    /\ UNCHANGED <<consoleVars, imageVars>>

StrategyOnlyInit ==
    /\ variant \in Variants
    /\ neverRetry \in BOOLEAN
    /\ no_write \in BOOLEAN
    /\ StrategyInit
    /\ ident = [s \in Sessions |-> [host |-> "host1", user |-> "user1"]]
    /\ placeHolder = NoHolder
    /\ acqResult = [s \in Sessions |-> "none"]
    /\ seen = [s \in Sessions |-> NoHolder]
    /\ place_acquired = [s \in Sessions |-> FALSE]
    /\ acquireReqs = [s \in Sessions |-> 0]
    /\ releaseReqs = [s \in Sessions |-> 0]
    /\ pcP = [s \in Sessions |-> "start"]
    /\ MainInit
    /\ ConsoleIdle
    /\ ImagesIdle

StrategyNext == Transition \/ Force

SpecStrategy == StrategyOnlyInit /\ [][StrategyNext]_vars

(***************************************************************************)
(* SpecPlace: two sessions acquiring and releasing the same place          *)
(***************************************************************************)
\* a process calls acquire_place and keeps the returned flag
PlaceAcquire(s) ==
    /\ pcP[s] = "start"
    /\ \E out \in AcquireOutcomes : AcquirePlace(s, out)
    /\ pcP' = [pcP EXCEPT ![s] = "running"]
    /\ UNCHANGED <<stratVars, mainVars>>
    /\ UNCHANGED <<consoleVars, imageVars>>

\* the process' teardown: release_place iff the release guard holds
PlaceTeardown(s) ==
    /\ pcP[s] = "running"
    /\ IF ReleaseGuard(TRUE, TRUE, place_acquired[s], TRUE)
       THEN \E out \in ReleaseOutcomes : ReleasePlace(s, out)
       ELSE UNCHANGED <<placeHolder, ident, acqResult, seen, place_acquired,
                        acquireReqs, releaseReqs>>
    /\ pcP' = [pcP EXCEPT ![s] = "done"]
    /\ UNCHANGED <<stratVars, mainVars>>
    /\ UNCHANGED <<consoleVars, imageVars>>

PlaceOnlyInit ==
    /\ variant = "none"
    /\ neverRetry = FALSE
    /\ no_write = FALSE
    /\ StrategyInit
    /\ ident \in [Sessions -> Identities]
    /\ PlaceInit
    /\ MainInit
    /\ ConsoleIdle
    /\ ImagesIdle

PlaceNext == \E s \in Sessions : PlaceAcquire(s) \/ PlaceTeardown(s)

SpecPlace == PlaceOnlyInit /\ [][PlaceNext]_vars

(***************************************************************************)
(* SpecConsole: main() from the call of the console function to the entry  *)
(* of its finally clause                                                   *)
(***************************************************************************)
\* main() has reached the console phase: the target and the console driver
\* exist, --non-interactive was accepted only together with --output
ConsoleOnlyInit ==
    /\ variant = "none"
    /\ neverRetry = FALSE
    /\ no_write = FALSE
    /\ StrategyInit
    /\ ident = [s \in Sessions |-> [host |-> "host1", user |-> "user1"]]
    /\ placeHolder = NoHolder
    /\ acqResult = [s \in Sessions |-> "none"]
    /\ seen = [s \in Sessions |-> NoHolder]
    /\ place_acquired = [s \in Sessions |-> FALSE]
    /\ acquireReqs = [s \in Sessions |-> 0]
    /\ releaseReqs = [s \in Sessions |-> 0]
    /\ pcP = [s \in Sessions |-> "start"]
    /\ cfg \in {c \in [mode : Modes, source : InputSources, timeout : Timeouts,
                       qemu : BOOLEAN, log : BOOLEAN] :
                   c.mode = "unattended" => c.log /\ c.source # "stdin"}
    /\ pc = "console"
    /\ main = [MainLocalsInit EXCEPT !.env = TRUE, !.target = TRUE,
                                     !.console = TRUE, !.output_fd = cfg.log,
                                     !.input_fifo = (cfg.source = "fifo")]
    /\ sessionState = "none"
    /\ powered_off = FALSE
    /\ tdStep = 1
    /\ tdLog = <<>>
    /\ tdRaised = {}
    /\ mainResult = -1
    /\ exitCode = -1
    /\ con = ConInit
    /\ alive = TRUE
    /\ now = 0
    /\ lastStep = NoStep
    /\ ImagesIdle

ConsoleNext ==
    \/ ConsoleCall
    \/ LoopInput
    \/ LoopOutput
    \/ Tick
    \/ TargetExits
    \/ ConsoleReturn

SpecConsole == ConsoleOnlyInit /\ [][ConsoleNext]_vars

\* the console functions while the process is scheduled and the clock
\* advances. Every call of the loop body returns (select and console.read
\* have timeouts of 0.01 s and 0.05 s), so the loop stays at the start of
\* neither half for ever: LoopInput is enabled exactly at con.pc = "loop"
\* and always leaves it, LoopOutput exactly at con.pc = "output", which
\* makes the two conditions the weak fairness of these actions.
\* time.time() grows while the loop runs: weak fairness of Tick.
SpecConsoleLive ==
    /\ ConsoleOnlyInit
    /\ [][ConsoleNext]_vars
    /\ []<>(con.pc # "loop")
    /\ []<>(con.pc # "output")
    /\ WF_vars(Tick)

(***************************************************************************)
(* SpecImages: load_environment on every bounded configuration             *)
(***************************************************************************)
ImagesOnlyInit ==
    /\ variant = "none"
    /\ neverRetry = FALSE
    /\ no_write = FALSE
    /\ StrategyInit
    /\ ident = [s \in Sessions |-> [host |-> "host1", user |-> "user1"]]
    /\ placeHolder = NoHolder
    /\ acqResult = [s \in Sessions |-> "none"]
    /\ seen = [s \in Sessions |-> NoHolder]
    /\ place_acquired = [s \in Sessions |-> FALSE]
    /\ acquireReqs = [s \in Sessions |-> 0]
    /\ releaseReqs = [s \in Sessions |-> 0]
    /\ pcP = [s \in Sessions |-> "start"]
    /\ MainInit
    /\ ConsoleIdle
    /\ envIn \in [image_sets : {f \in [SetNames -> ImageDicts \cup {Absent}] :
                                    f["known_good"] \in
                                        {Absent, <<[name |-> "barebox",
                                                    kind |-> "path"]>>}},
                   images : {Absent, <<>>,
                             <<[name |-> "barebox", kind |-> "path"]>>},
                   image_set : SetNames,
                   image_overrides : OverrideLists,
                   no_write : BOOLEAN]
    /\ envOut = NoEnv

ImagesNext == LoadEnvironment

SpecImages == ImagesOnlyInit /\ [][ImagesNext]_vars

(***************************************************************************)
(* Properties of the strategy state machine                                *)
(***************************************************************************)
\* the last call was transition(t), and labgrid's never_retry did not refuse it
LastTransition(t) ==
    /\ lastCall.kind = "transition"
    /\ lastCall.target = t

\* the call left the strategy and the hardware as it found them
CallChangedNothing ==
    /\ lastCall.ops = <<>>
    /\ hw = lastCall.fromHw
    /\ status = lastCall.from
    /\ bootstrap_done = lastCall.fromDone

\* C2: transition(target) with target equal to the current state issues no
\* driver or hardware operation and leaves the current state, bootstrap_done
\* and the hardware unchanged, in both strategy variants and after any
\* preceding sequence of transitions and forces.
C2_SameStateIsNoOp ==
    (lastCall.kind = "transition" /\ lastCall.target = lastCall.from)
        => CallChangedNothing

\* C2 witness: an 'on' transition skipped in state 'on', after an image write
C2_Witness ==
    /\ LastTransition("on")
    /\ lastCall.from = "on"
    /\ lastCall.result = "skip"
    /\ hw.writes = 1
    /\ hw.lastPower = "cycle"

\* the operations of the 'off' branch, by strategy variant
OffActions(v) ==
    IF v = "bootstrap"
    THEN <<"deactivate_console", "activate_power", "power_off">>
    ELSE <<"activate_sdmux", "sdmux_set_mode_dut", "deactivate_console",
           "activate_power", "power_off">>

\* the operations of the 'on' branch after its recursion to 'off'
OnActions(v, done, nw) ==
    IF v = "bootstrap"
    THEN <<"activate_console", "power_cycle", "get_image", "activate_usbloader",
           "usbloader_load">>
    ELSE <<"activate_console">>
         \o SelectSeq(SDMuxWriteOps(done, nw), LAMBDA o : o \in FallibleOps)
         \o <<"power_cycle">>

\* the operations between state 'from' and 'barebox'
PathToBarebox(v, from, done, nw) ==
    (IF from = "unknown" THEN OffActions(v) ELSE <<>>)
    \o (IF from \in {"unknown", "off"} THEN OnActions(v, done, nw) ELSE <<>>)
    \o <<"activate_barebox">>

IsPrefix(a, b) == Len(a) <= Len(b) /\ SubSeq(b, 1, Len(a)) = a

C4_AtMostOneWrite ==
    variant = "sdmux" =>
        /\ hw.writes <= 1
        /\ (LastTransition("on") /\ lastCall.fromHw.writes >= 1
                /\ lastCall.result \in {"ok", "skip"})
           => /\ hw.writes = lastCall.fromHw.writes
              /\ status = "on"
              /\ hw.muxMode = "dut"
              /\ hw.lastPower = "cycle"

\* C5: transition(unknown) fails with a StrategyError from every current
\* state, issues no operation and leaves the current state unchanged.
C5_UnknownRejected ==
    LastTransition("unknown")
        => /\ lastCall.result = "StrategyError"
           /\ CallChangedNothing

\* C5 witness: transition(unknown) refused in state 'on'
C5_Witness ==
    /\ LastTransition("unknown")
    /\ lastCall.from = "on"
    /\ lastCall.result = "StrategyError"
    /\ status = "on"

(***************************************************************************)
(* Properties of place acquisition and teardown                            *)
(***************************************************************************)
Range(q) == {q[i] : i \in DOMAIN q}

\* C1 as stated: once teardown has sent the place release request, the most
\* recent power command issued to the target is not a power cycle that
\* completed: the place is never released while the target was last commanded
\* on.  (A cycle that raised or was interrupted is not held against the claim.)
C1_PowerOffBeforeRelease ==
    releaseReqs[Me] > 0 => ~(hw.lastPower = "cycle" /\ hw.lastPowerOk)

\* C6: a place release request is sent at teardown if and only if this
\* process' own acquire call returned true; a place found held by the same
\* host/user identity at startup is never released by this process.
C6_ReleaseIffAcquired ==
    /\ releaseReqs[Me] > 0 => acqResult[Me] = "true"
    /\ acqResult[Me] = "false" => releaseReqs[Me] = 0
    /\ pc = "done" => (releaseReqs[Me] = 1 <=> acqResult[Me] = "true")

\* C6 witness: the run ended with the place borrowed from the same identity
\* and still held by it
C6_Witness ==
    /\ pc = "done"
    /\ acqResult[Me] = "false"
    /\ seen[Me] = ident[Me]
    /\ placeHolder = ident[Me]
    /\ sessionState = "closed"
    /\ releaseReqs[Me] = 0

\* C7: acquire on an unowned place sends one acquire request and, when the
\* request and the synchronisation succeed, returns true; acquire by the same
\* host/user identity while the place is held returns false without sending a
\* request; after that sequence the teardowns send exactly one release request.
C7_AcquireTwiceReleaseOnce ==
    \A a \in Sessions :
        /\ (acqResult[a] # "none" /\ seen[a] = NoHolder)
               => /\ acquireReqs[a] = 1
                  /\ acqResult[a] \in {"true", "request_error", "sync_error"}
        /\ acqResult[a] = "true" => (acquireReqs[a] = 1 /\ seen[a] = NoHolder)
        /\ acqResult[a] = "false" => (acquireReqs[a] = 0 /\ seen[a] = ident[a])
        /\ \A b \in Sessions \ {a} :
               (acqResult[a] = "true" /\ acqResult[b] = "false"
                   /\ pcP[a] = "done" /\ pcP[b] = "done")
               => releaseReqs[a] + releaseReqs[b] = 1

\* C7 witness: session 1 acquired, session 2 of the same identity borrowed,
\* both tore down and the place is free again
C7_Witness ==
    /\ acqResult[1] = "true"
    /\ acqResult[2] = "false"
    /\ ident[1] = ident[2]
    /\ pcP[1] = "done" /\ pcP[2] = "done"
    /\ releaseReqs[1] = 1 /\ releaseReqs[2] = 0
    /\ placeHolder = NoHolder

\* C8: acquire on a place held by a different identity (other host or other
\* user) fails with a conflict error, sends no acquire or release request and
\* leaves the coordinator's ownership of the place unchanged, and neither does
\* the teardown that follows: another holder is never preempted.
C8_ConflictNoPreemption ==
    [][\A s \in Sessions :
          /\ (pcP[s] = "start" /\ pcP'[s] = "running"
                /\ placeHolder # NoHolder /\ placeHolder # ident[s])
             => acqResult'[s] = "conflict"
          /\ (acqResult'[s] = "conflict" /\ pcP[s] = "start" /\ pcP'[s] = "running")
             => (placeHolder # NoHolder /\ placeHolder # ident[s])
          /\ (acqResult'[s] = "conflict" /\ pcP'[s] # pcP[s])
             => /\ placeHolder' = placeHolder
                /\ acquireReqs'[s] = 0
                /\ releaseReqs'[s] = 0
                /\ ~place_acquired'[s]]_vars

\* C8 witness: session 2 met a place held by its own user on another host,
\* and the place is still held by that identity after session 2's teardown
C8_Witness ==
    /\ acqResult[2] = "conflict"
    /\ seen[2].user = ident[2].user
    /\ seen[2].host # ident[2].host
    /\ pcP[2] = "done"
    /\ placeHolder = seen[2]

\* the teardown steps whose guard holds in the current state
ApplicableSteps == {st \in Range(TeardownOrder) : StepApplies(st)}

\* C9: if a teardown step raises (in particular the power-off attempt), every
\* later teardown step whose guard holds is still attempted, and the exit code
\* of the process is the one the main operation determined.
C9_CleanupFailureContained ==
    (pc = "done" /\ tdRaised # {})
        => /\ ApplicableSteps \subseteq Range(tdLog)
           /\ exitCode = mainResult

\* C9 witness: the strategy's power-off raised in teardown, the place was
\* released and the session closed afterwards, and the run exits with 0
C9_Witness ==
    /\ pc = "done"
    /\ "strategy_off" \in tdRaised
    /\ lastCall.failed = "power_off"
    /\ releaseReqs[Me] = 1
    /\ sessionState = "closed"
    /\ mainResult = 0
    /\ exitCode = 0

\* position of a teardown step in the documented order
StepRank(st) ==
    CASE st = "deactivate_console"     -> 1
      [] st = "strategy_off"           -> 2
      [] st = "power_fallback"         -> 3
      [] st = "deactivate_all_drivers" -> 4
      [] st = "release_place"          -> 5
      [] st = "session_stop_close"     -> 6
      [] st = "loop_close"             -> 7
      [] st = "close_output"           -> 8
      [] st = "remove_fifo"            -> 9
      [] st = "target_cleanup"         -> 10
      [] st = "env_cleanup"            -> 11
      [] OTHER                         -> 12

\* C10: on every exit path of the main operation teardown runs to its end,
\* and its steps are attempted in the documented order: console deactivation,
\* power-off (strategy, then direct power fallback), deactivation of the
\* remaining drivers, place release, session stop and close, event-loop close,
\* log file close, FIFO removal, release of the target and environment.
C10_TeardownOrder ==
    /\ \A i, j \in DOMAIN tdLog : i < j => StepRank(tdLog[i]) < StepRank(tdLog[j])
    /\ mainResult # -1 => pc \in {"teardown", "done"}
    /\ pc = "done" => /\ mainResult \in {0, 1, 130}
                      /\ ApplicableSteps \subseteq Range(tdLog)

\* C10 witness: an interrupted run in which every teardown step was attempted
C10_Witness ==
    /\ pc = "done"
    /\ mainResult = 130
    /\ Len(tdLog) = Len(TeardownOrder)

(***************************************************************************)
(* Properties of the console I/O loop                                      *)
(***************************************************************************)
\* C11: a SIGINT that arrives while a console function runs makes main()
\* return 130 (refuted: both console functions absorb the interrupt and
\* main() goes on to "return 0")
C11_InterruptExits130 ==
    (pc = "teardown" /\ con.sigint) => mainResult = 130

\* C12: when the liveness check of an iteration finds the console dead, the
\* iteration ends the loop having done nothing but that check: no input
\* read, no console write, no console read; the only reason printed is the
\* "closed" one, also when the timeout has expired as well
C12_DeadConsoleClosesFirst ==
    (lastStep.ops # <<>> /\ ~lastStep.live) =>
        /\ con.pc = "returned"
        /\ con.cause = "liveness"
        /\ lastStep.ops = <<"check_alive", "report_closed", "break">>
        /\ con.printed = <<MsgClosed, MsgBanner>>
        /\ con.wrote = <<>> /\ con.got = <<>>

C12_Witness ==
    /\ cfg.mode = "unattended"
    /\ ~lastStep.live
    /\ lastStep.expired
    /\ con.pc = "returned"
    /\ MsgClosed \in Range(con.printed)

\* the last step was the first half of an iteration and its input read was
\* carried out
InputWasRead ==
    /\ lastStep.live /\ ~lastStep.expired
    /\ "read_input" \in Range(lastStep.ops)
    /\ con.cause \notin {"interrupt", "exception"}

\* C13: with a FIFO or a file as input source, in either loop, an empty
\* read (end of file) or a would-block result leaves the loop running, and
\* a chunk of bytes read from that source, also after such a result, is
\* passed unchanged to the console
C13_EofWaitKeepsRunning ==
    cfg.source \in {"fifo", "file"} =>
        /\ con.cause # "eof"
        /\ (InputWasRead /\ lastStep.offer.kind \in {"eof", "wouldblock"}) =>
               con.pc = "output" /\ con.sawWait /\ con.wrote = <<>>
        /\ (InputWasRead /\ lastStep.offer.kind = "data"
                /\ con.cause # "write_failure") =>
               con.pc = "output" /\ con.wrote = lastStep.offer.data

C13_Witness ==
    /\ cfg.mode = "unattended"
    /\ cfg.source = "fifo"
    /\ con.sawWait
    /\ lastStep.offer.kind = "data"
    /\ con.wrote = lastStep.offer.data
    /\ con.pc = "output"

\* C14: in the interactive loop with a keyboard stream that is not a TTY,
\* end of input on the stream ends the loop and a lone exit key read from it
\* ends the loop (refuted: that stream is never polled nor read)
C14_NonTtyKeyboardLikeTty ==
    (/\ cfg.mode = "interactive" /\ cfg.source = "stdin"
     /\ lastStep.live /\ ~lastStep.expired
     /\ con.cause \notin {"interrupt", "exception"}) =>
        /\ lastStep.offer.kind = "eof" => con.cause = "eof"
        /\ lastStep.offer.data = <<ExitKey>> => con.cause = "exit_key"

\* C15: in the unattended loop with a positive timeout the quiet time never
\* passes the threshold: the cycle in which it reaches 100 ends the loop,
\* whatever the clock says, and no timeout is reported
C15_QuietPeriodEndsLoop ==
    (cfg.mode = "unattended" /\ cfg.timeout > 0) =>
        /\ con.quiet_time <= QuietThreshold
        /\ con.quiet_time = QuietThreshold =>
               /\ con.pc = "returned"
               /\ con.cause = "quiet"
               /\ MsgTimeout \notin Range(con.printed)
        /\ con.cause = "quiet" => con.quiet_time = QuietThreshold

C15_Witness ==
    /\ cfg.mode = "unattended"
    /\ cfg.source = "fifo"
    /\ con.cause = "quiet"
    /\ con.pc = "returned"
    /\ now < cfg.timeout
    /\ con.sawWait

\* C16: when the unattended loop ends because the console stayed quiet, a
\* message naming that cause is printed before the function returns, as
\* for every other cause (refuted: the quiet-period exit prints nothing but
\* the closing banner; so do the end of input, the exit key and the
\* interrupt)
C16_EveryExitReported ==
    (con.pc = "returned" /\ con.cause = "quiet") =>
        \E i \in DOMAIN con.printed : con.printed[i] # MsgBanner

C18_ExitKeyNeverForwarded ==
    (cfg.mode = "interactive" /\ cfg.source = "tty") =>
        /\ ExitKey \notin Range(con.wrote)
        /\ (InputWasRead /\ ExitKey \in Range(lastStep.offer.data)) =>
               con.cause = "exit_key"

\* C19: with a FIFO or a file as input source, in either loop, the byte
\* 0x1D never ends the loop as an exit request, and a chunk holding it is
\* passed to the console like any other
C19_ExitKeyFromPipeIsData ==
    cfg.source \in {"fifo", "file"} =>
        /\ con.cause # "exit_key"
        /\ (InputWasRead /\ ExitKey \in Range(lastStep.offer.data)
                /\ con.cause = "none") =>
               con.pc = "output" /\ con.wrote = lastStep.offer.data

C19_Witness ==
    /\ cfg.mode = "interactive"
    /\ cfg.source = "file"
    /\ lastStep.offer.data = <<ExitKey>>
    /\ con.wrote = <<ExitKey>>
    /\ con.pc = "output"

LastForce(t) ==
    /\ lastCall.kind = "force"
    /\ lastCall.target = t

\* the call sent no power command and no mux, storage or loader command
NoPowerMuxStorageLoader ==
    /\ hw.lastPower = lastCall.fromHw.lastPower
    /\ hw.lastPowerOk = lastCall.fromHw.lastPowerOk
    /\ hw.muxMode = lastCall.fromHw.muxMode
    /\ hw.writes = lastCall.fromHw.writes
    /\ hw.loads = lastCall.fromHw.loads
    /\ hw.active \ {"console"} = lastCall.fromHw.active \ {"console"}

\* C21: force(state) succeeds only for state = barebox: from every current
\* state a completed force(barebox) has issued the console activation and no
\* other operation (no power, mux, storage or loader command) and has set the
\* current state to barebox; force of any other state fails with a
\* StrategyError, issues nothing and leaves the current state unchanged.
C21_ForceOnlyBarebox ==
    lastCall.kind = "force" =>
        /\ lastCall.result = "ok" => lastCall.target = "barebox"
        /\ Range(lastCall.ops) \subseteq {"activate_console"}
        /\ NoPowerMuxStorageLoader
        /\ (lastCall.target = "barebox" /\ lastCall.result = "ok")
               => /\ lastCall.ops = <<"activate_console">>
                  /\ status = "barebox"
                  /\ "console" \in hw.active
        /\ lastCall.target # "barebox"
               => /\ lastCall.result = "StrategyError"
                  /\ CallChangedNothing

\* C21 witness: force(barebox) completed on a target that was powered off
C21_Witness ==
    /\ LastForce("barebox")
    /\ lastCall.from = "off"
    /\ lastCall.result = "ok"
    /\ status = "barebox"
    /\ hw.lastPower = "off"
    /\ "console" \in hw.active

\* C22: with the no-write override set, no transition of the SD-mux strategy
\* writes the image: the storage capability is never activated and no write
\* is issued; an 'on' transition that completes (and is not skipped) leaves
\* bootstrap_done true, has set the mux to device mode and has power-cycled
\* the target.
C22_NoWriteOverride ==
    (variant = "sdmux" /\ no_write) =>
        /\ hw.writes = 0
        /\ "storage" \notin hw.active
        /\ Range(lastCall.ops) \cap
               {"storage_write_image", "activate_storage", "sdmux_set_mode_host",
                "get_image"} = {}
        /\ (LastTransition("on") /\ lastCall.result = "ok")
               => /\ bootstrap_done
                  /\ status = "on"
                  /\ hw.muxMode = "dut"
                  /\ hw.lastPower = "cycle" /\ hw.lastPowerOk
                  /\ \E i, j \in DOMAIN lastCall.ops :
                         /\ i < j
                         /\ lastCall.ops[i] = "sdmux_set_mode_dut"
                         /\ lastCall.ops[j] = "power_cycle"

\* C22 witness: the first 'on' transition under the override, from 'off',
\* found bootstrap_done false and set it without a write
C22_Witness ==
    /\ variant = "sdmux" /\ no_write
    /\ LastTransition("on")
    /\ lastCall.from = "off"
    /\ ~lastCall.fromDone
    /\ lastCall.result = "ok"
    /\ bootstrap_done
    /\ hw.writes = 0
    /\ hw.muxMode = "dut"
    /\ hw.lastPower = "cycle"

RECURSIVE MuxModeAfter(_, _, _)
\* the mux mode after the first n operations of a call that found it in mode m
\* (all but the last logged operation of a call are known to have completed)
MuxModeAfter(ops, n, m) ==
    IF n = 0 THEN m
    ELSE IF ops[n] = "sdmux_set_mode_host" THEN "host"
    ELSE IF ops[n] = "sdmux_set_mode_dut" THEN "dut"
    ELSE MuxModeAfter(ops, n - 1, m)

\* C24: in the SD-mux strategy the storage capability is activated and the
\* image is written only after the mux has been switched to host-write mode,
\* and the mux is switched back to device-boot mode after the write: no
\* storage activation and no write is issued while the mux is not in host mode.
C24_WriteOrder ==
    variant = "sdmux" =>
        \A i \in DOMAIN lastCall.ops :
            lastCall.ops[i] \in {"activate_storage", "storage_write_image"}
                => MuxModeAfter(lastCall.ops, i - 1, lastCall.fromHw.muxMode) = "host"

(***************************************************************************)
(* Properties of the console loop: closed connections, quiet time          *)
(***************************************************************************)
\* the loop ended because the console connection was found closed
FoundClosed == con.cause \in {"read_closed", "write_failure"}

\* C23: when the console loop ends because the console read gave a
\* connection-closed result or the console write failed, the loop has printed
\* the "closed" message, the console function returns normally and main()
\* leaves its try block with exit code 0.
C23_ClosedExitsZero ==
    FoundClosed =>
        /\ con.pc = "returned"
        /\ con.exc = "none"
        /\ con.printed = <<MsgClosed, MsgBanner>>
        /\ pc = "teardown" => mainResult = 0

\* C23 witness: the console read found the connection closed, main() has
\* left the console function with result 0
C23_Witness ==
    /\ con.cause = "read_closed"
    /\ "console_read" \in Range(lastStep.ops)
    /\ MsgClosed \in Range(con.printed)
    /\ pc = "teardown"
    /\ mainResult = 0

\* a step that is the first half of an iteration of the unattended loop
UnattendedInputStep ==
    cfg.mode = "unattended" /\ con.pc = "loop" /\ con'.pc # "loop"

\* a step that is the second half of an iteration of the unattended loop,
\* in which the console read was classified and nothing raised
UnattendedOutputStep ==
    /\ cfg.mode = "unattended" /\ con.pc = "output" /\ con'.pc # "output"
    /\ con'.cause \notin {"read_closed", "exception"}

\* the quiet time after a console read, by what the read returned
QuietAfterRead ==
    IF con'.got # <<>> THEN 0 ELSE con.quiet_time + 1

C26_OffMeansDeviceMode ==
    (variant = "sdmux" /\ status = "off") => hw.muxMode = "dut"

\* C27: in both strategy variants bootstrap_done is true in every state
\* reached after an image write (SD-mux variant) or an image load (bootstrap
\* variant) has completed.
C27_DoneAfterWriteOrLoad ==
    (hw.writes >= 1 \/ hw.loads >= 1) => bootstrap_done

\* C28: bootstrap_done is monotone: once true it stays true through every
\* transition and force call, whether the call completes, is skipped or fails.
C28_DoneIsMonotone ==
    [][bootstrap_done => bootstrap_done']_vars

\* C28 witness: bootstrap_done was true before a transition to 'off' that
\* failed, and is true after it
C28_Witness ==
    /\ lastCall.fromDone
    /\ LastTransition("off")
    /\ lastCall.failed = "power_off"
    /\ bootstrap_done

(***************************************************************************)
(* Properties of the console loop: read results and write failures         *)
(***************************************************************************)
\* the results of a console read that the claim calls the timeout class,
\* the connection-closed class, and the other exceptions
TimeoutClass == {"empty", "TimeoutError"}

ClosedClass == {"BrokenPipeError", "ConnectionError", "EOFError", "OSError_critical"}

OtherExceptions == {"OSError_other", "Exception"}

\* the last step was the console read of an iteration, with no SIGINT
\* delivered to the interactive loop and no screen or log write raising
ConsoleWasRead ==
    /\ lastStep.read # "none"
    /\ con.cause \notin {"interrupt", "exception"}

\* C29: in both loops a console read that times out or returns nothing
\* leaves the loop running (or ends it only through the quiet period) and is
\* no error; a connection-closed result (broken pipe, connection error, EOF,
\* bad descriptor / pipe / reset errno) ends the loop as closed; any other
\* exception is treated like a timeout and never ends the loop.
C29_ReadResultClasses ==
    ConsoleWasRead =>
        /\ con.exc = "none"
        /\ lastStep.read \in ClosedClass =>
               /\ con.pc = "returned"
               /\ con.cause = "read_closed"
               /\ MsgClosed \in Range(con.printed)
        /\ lastStep.read \in TimeoutClass \cup OtherExceptions =>
               /\ con.cause \in {"none", "quiet"}
               /\ con.cause = "none" => con.pc = "loop"
               /\ con.got = <<>>
               /\ MsgClosed \notin Range(con.printed)
               /\ cfg.mode = "unattended" => con.quiet_time >= 1
        /\ lastStep.read = "data" =>
               /\ con.cause = "none" /\ con.pc = "loop"
               /\ con.got # <<>>

\* C29 witness: the console read raised an exception outside both classes
\* in the interactive loop, which goes on
C29_Witness ==
    /\ cfg.mode = "interactive"
    /\ lastStep.read = "Exception"
    /\ con.pc = "loop"
    /\ con.cause = "none"
    /\ con.exc = "none"

\* the console write of the last step raised: the write was started and
\* nothing was written (a SIGINT that ends the interactive loop set aside)
ConsoleWriteFailed ==
    /\ "console_write" \in Range(lastStep.ops)
    /\ con.wrote = <<>>
    /\ con.cause # "interrupt"

\* C30: in both loops a console write that fails while input is forwarded
\* ends the loop in that iteration: the "closed" message is printed, the
\* function returns, and the console read of that iteration is not started.
C30_WriteFailureEndsLoop ==
    /\ ConsoleWriteFailed => con.cause = "write_failure"
    /\ con.cause = "write_failure" =>
           /\ con.pc = "returned"
           /\ con.printed = <<MsgClosed, MsgBanner>>
           /\ lastStep.read = "none"
           /\ "console_read" \notin Range(lastStep.ops)
           /\ con.got = <<>> /\ con.shown = <<>> /\ con.logged = <<>>
           /\ lastStep.offer.kind = "data"

\* C30 witness: the unattended loop ended by a failed write of FIFO input
C30_Witness ==
    /\ cfg.mode = "unattended"
    /\ cfg.source = "fifo"
    /\ ConsoleWriteFailed
    /\ con.cause = "write_failure"
    /\ con.pc = "returned"

(***************************************************************************)
(* Properties of the console loop: no timeout configured                   *)
(***************************************************************************)
\* the ways a loop without a timeout may end
UnboundedLoopEnds ==
    {"liveness", "read_closed", "write_failure", "eof", "exit_key", "interrupt"}

\* C31: with timeout 0 (or unset, which main() turns into 0) neither loop
\* ends because of the elapsed time or the quiet period and no timeout is
\* reported; a loop that returns has ended by loss of liveness, a closed
\* connection, end of input or the exit key on the keyboard, or an
\* interrupt.  (With timeout 0 the test "elapsed >= timeout" is true at every
\* clock value, so the clock at 0 stands for all of them; an exception no
\* handler of the loop catches makes the function raise, not return.)
C31_NoTimeoutNoTimedExit ==
    cfg.timeout = 0 =>
        /\ con.cause \notin {"timeout", "quiet"}
        /\ MsgTimeout \notin Range(con.printed)
        /\ con.pc = "returned" => con.cause \in UnboundedLoopEnds
        /\ con.cause \in {"eof", "exit_key"} =>
               cfg.mode = "interactive" /\ cfg.source = "tty"

\* C31 witness: the unattended loop without a timeout still running after
\* more quiet cycles than the threshold
C31_Witness ==
    /\ cfg.mode = "unattended"
    /\ cfg.timeout = 0
    /\ con.quiet_time > QuietThreshold
    /\ con.pc = "loop"
    /\ con.cause = "none"

(***************************************************************************)
(* Properties of the strategy state machine: reachability and failures     *)
(***************************************************************************)
\* C32: the current state is 'unknown' only before the first transition or
\* force that succeeds: a call that succeeds leaves a state other than
\* 'unknown', and once the state is not 'unknown' no later call, successful
\* or failed, makes it 'unknown' again.
C32_UnknownOnlyInitially ==
    [][/\ status # "unknown" => status' # "unknown"
       /\ lastCall'.result = "ok" => status' # "unknown"]_vars

\* C32 witness: two calls failed after the state had left 'unknown'
C32_Witness ==
    /\ calls = 3
    /\ lastCall.from # "unknown"
    /\ lastCall.fromBroken = FALSE
    /\ lastCall.failed # "none"
    /\ status \in {"off", "on", "barebox"}

(***************************************************************************)
(* Properties of the image selection                                       *)
(***************************************************************************)
\* the --image options that name an image the selected set does not have
UnknownOverrides ==
    {i \in DOMAIN envIn.image_overrides :
        /\ Len(envIn.image_overrides[i]) = 2
        /\ envIn.image_overrides[i][1] \notin Keys(envOut.selected)}

\* C33: when an --image option names an image that the selected image set
\* does not have, load_environment ends with an error, and the set has no
\* new entry and its existing entries have not been changed.
C33_UnknownOverrideRejected ==
    (envOut.status # "none" /\ envOut.selected # <<>> /\ UnknownOverrides # {}) =>
        /\ envOut.status = "exit1"
        /\ Keys(envOut.images) = Keys(envOut.selected)
        /\ Len(envOut.images) = Len(envOut.selected)

(***************************************************************************)
(* Properties of the strategy state machine: reaching the target state     *)
(***************************************************************************)
\* C34: when no hardware action fails (no driver call raises), transition(t)
\* for t in off, on, barebox returns without error from every current state,
\* with the current state equal to t.
C34_TransitionReachesTarget ==
    (/\ lastCall.kind = "transition"
     /\ lastCall.target \in {"off", "on", "barebox"}
     /\ ~lastCall.fromBroken
     /\ lastCall.result # "Exception") =>
        /\ lastCall.result \in {"ok", "skip"}
        /\ status = lastCall.target

\* an operation was issued by the last call and did not raise
Completed(op) == op \in Range(lastCall.ops) /\ lastCall.failed # op

\* the last operation of the 'on' branch, by strategy variant
LastOnAction == IF variant = "bootstrap" THEN "usbloader_load" ELSE "power_cycle"

\* the state a failed transition leaves: that of the last prerequisite branch
\* that ran to its end in this call, else the state the call found
StateAfterFailure ==
    IF Completed(LastOnAction) THEN "on"
    ELSE IF Completed("power_off") THEN "off"
    ELSE lastCall.from

\* C35: when an operation fails during transition(t), the current state is
\* not set to t: it is the last prerequisite state whose branch completed in
\* this call, or the previous state if none did; the exception reaches the
\* caller, the failed operation is the last one issued and no operation is
\* issued a second time in its place.
C35_FailureKeepsPrerequisite ==
    (lastCall.kind = "transition" /\ lastCall.failed # "none") =>
        /\ status # lastCall.target
        /\ status = StateAfterFailure
        /\ lastCall.result \in TransitionExceptions
        /\ lastCall.ops[Len(lastCall.ops)] = lastCall.failed
        /\ IsPrefix(lastCall.ops,
                    SelectSeq(BodyOps(variant, "transition", lastCall.from,
                                      lastCall.fromDone, no_write, lastCall.target),
                              LAMBDA o : o \in FallibleOps))

\* C35 witness: transition(barebox) from 'unknown' in the SD-mux strategy
\* failing at the power cycle, after the 'off' branch completed
C35_Witness ==
    /\ variant = "sdmux"
    /\ LastTransition("barebox")
    /\ lastCall.from = "unknown"
    /\ lastCall.failed = "power_cycle"
    /\ lastCall.result = "Exception"
    /\ status = "off"

RECURSIVE PowerAfter(_, _, _)
\* the last power command issued after the first n operations of a call that
\* found the last command to be p
PowerAfter(ops, n, p) ==
    IF n = 0 THEN p
    ELSE IF ops[n] = "power_off" THEN "off"
    ELSE IF ops[n] = "power_cycle" THEN "cycle"
    ELSE PowerAfter(ops, n - 1, p)

\* C36: in the SD-mux strategy the image is written only while the mux is
\* in host mode and the last power command issued to the target is power-off,
\* and the target is never power-cycled while the mux is in host mode.
C36_WriteOnlyWhenOffAndHost ==
    variant = "sdmux" =>
        \A i \in DOMAIN lastCall.ops :
            /\ lastCall.ops[i] = "storage_write_image" =>
                   /\ MuxModeAfter(lastCall.ops, i - 1, lastCall.fromHw.muxMode)
                          = "host"
                   /\ PowerAfter(lastCall.ops, i - 1, lastCall.fromHw.lastPower)
                          = "off"
            /\ lastCall.ops[i] = "power_cycle" =>
                   MuxModeAfter(lastCall.ops, i - 1, lastCall.fromHw.muxMode)
                       = "dut"

\* C36 witness: an 'on' transition from 'off' that found the mux left in host
\* mode by a failed write, wrote the image and power-cycled the target
C36_Witness ==
    /\ variant = "sdmux"
    /\ LastTransition("on")
    /\ lastCall.from = "off"
    /\ lastCall.fromHw.muxMode = "host"
    /\ lastCall.result = "ok"
    /\ hw.writes = 1
    /\ hw.lastPower = "cycle"
    /\ hw.muxMode = "dut"

(***************************************************************************)
(* Properties of the coordinator session and the place lease at exit       *)
(***************************************************************************)
\* C37: a coordinator session that was started has been stopped and closed
\* when the process exits, also in runs in which the place acquisition
\* failed (a stop or close that itself raised is not held against the claim).
C37_StartedSessionClosed ==
    (pc = "done" /\ sessionState # "none"
        /\ "session_stop_close" \notin tdRaised) => sessionState = "closed"

\* C38: when the coordinator accepted this process's acquire request, also
\* when the synchronisation after it failed, teardown has sent a release
\* request when the process exits, and the place is no longer held unless
\* the release itself raised.
C38_AcceptedLeaseReleased ==
    (pc = "done" /\ acqResult[Me] \in {"true", "sync_error"}) =>
        /\ releaseReqs[Me] = 1
        /\ "release_place" \notin tdRaised => placeHolder = NoHolder

(***************************************************************************)
(* Termination of the console loops                                        *)
(***************************************************************************)
\* the console function has left its loop and ended
ConsoleEnded == con.pc \in {"returned", "raised"}

\* C39: with a positive timeout and the clock advancing, a console loop
\* of either variant that is running eventually ends, whatever the input
\* source offers and however the console reads end.
C39_TimeoutEndsLoop ==
    (cfg.timeout > 0 /\ con.pc \in {"loop", "output"}) ~> ConsoleEnded

\* an unattended loop with a timeout that went through quiet cycles and was
\* ended by the elapsed-time test
C39_Witness ==
    /\ cfg.timeout > 0
    /\ con.pc = "returned"
    /\ con.cause = "timeout"
    /\ con.quiet_time > 0
    /\ MsgTimeout \in Range(con.printed)

====
